---- MODULE Spec2Model ----
(***************************************************************************)
(* Ladder-logic evaluation engines of the PLC simulator.                   *)
(*                                                                         *)
(*   LadderStructure + LadderSimulation   (simulation.js, simulation-new.js)*)
(*   LadderData      + LadderSimulator    (unnamed/part_002, part_003)      *)
(*   grid            + PLCSimulation      (unnamed/part_000, iterating)     *)
(*                                                                         *)
(* A scan is synchronous in the program; here it is cut into steps (one    *)
(* evaluateBranch call, one iteration of the stabilizer loop) and no other *)
(* operation is enabled while a scan is in progress.                       *)
(***************************************************************************)
EXTENDS Integers, Sequences, FiniteSets, TLC

\* ------------------------------------------------------------------ bounds
\* Columns of the model's diagrams are 0..MaxCol.
MaxCol == 1
\* Most branches plus components a diagram is edited up to.
MaxSize == 4
\* Most branches of a diagram; its rows are 0..MaxBranches - 1.
MaxBranches == 3
\* Largest id createBranch hands out.
MaxBranchId == 3

\* ------------------------------------------------------- program constants
\* JavaScript null (parent_branch_id / connection_col of the main branch).
NULL == -1
MAX_ITERATIONS == 10

Cols == 0..MaxCol
Rows == 0..(MaxBranches - 1)
gridCols == MaxCol + 1

\* ---------------------------------------------------------------- addresses
\* An address is the sequence of its characters, so that the prefix tests of
\* the code are computed and not assumed.
AddrI0 == <<"I", ":", "0", "/", "0">>
AddrI1 == <<"I", ":", "0", "/", "1">>
AddrO0 == <<"O", ":", "0", "/", "0">>
AddrEmpty == <<>>
\* An address no pin list holds.
AddrI7 == <<"I", ":", "0", "/", "7">>

startsWith(address, prefix) ==
    /\ Len(address) >= Len(prefix)
    /\ SubSeq(address, 1, Len(prefix)) = prefix

PrefixI == <<"I", ":">>
PrefixO == <<"O", ":">>

\* The pin lists handed to initializePins / loadPins.
InputPins == <<AddrI0, AddrI1>>
OutputPins == <<AddrO0>>

Range(s) == {s[i] : i \in DOMAIN s}

\* ------------------------------------------------------ JavaScript objects
\* An object used as a map is a function; an absent key reads undefined.
EmptyMap == << >>
Put(m, k, v) == [x \in (DOMAIN m) \cup {k} |-> IF x = k THEN v ELSE m[x]]
\* m[k] || false
GetOrFalse(m, k) == (k \in DOMAIN m) /\ m[k]

VARIABLES
    engine,             \* which engine class this run instantiates
    branches,           \* rungs[0].branches of LadderStructure / LadderData
    nextBranchId,       \* LadderStructure.nextBranchId
    grid,               \* window.grid of the grid engine
    pinStates,          \* this.pinStates
    isRunning,          \* this.isRunning
    branchPowerStates,  \* LadderSimulation.branchPowerStates, key <<id, col>>
    wireStates,         \* wireStates of LadderSimulator / PLCSimulation, key <<row, col>>
    componentStates,    \* this.componentStates, key <<row, col>>
    pc,                 \* "idle", a scan in progress, or "done" right after a scan
    order,              \* the sorted array evaluateLadder iterates (indices into branches)
    bi,                 \* next position of order to evaluate
    iterations,         \* executeScanCycle: iterations
    stateChanged,       \* executeScanCycle: stateChanged
    previousOutputStates, \* executeScanCycle: previousOutputStates
    scanStart,          \* pinStates when the running/last scan was entered
    lastScan,           \* observable result of the scan completed just before this one
    isSimulationRunning, \* app.js: the flag the buttons and the canvas handlers read
    currentTool,        \* app.js: the selected tool id, "null" when deselected
    dialog              \* app.js: the component of the open pin select, << >> when closed

\* The state of the page (app.js) around the simulator.
ui == <<isSimulationRunning, currentTool, dialog>>

vars == <<engine, branches, nextBranchId, grid, pinStates, isRunning,
          branchPowerStates, wireStates, componentStates, pc, order, bi,
          iterations, stateChanged, previousOutputStates, scanStart, lastScan,
          isSimulationRunning, currentTool, dialog>>

\* ------------------------------------------------------------ diagram model
Types == {"NO", "NC", "OUT"}

Component(type, address, col) == [type |-> type, address |-> address, col |-> col]

Branch(id, row, start_col, end_col, parent_branch_id, connection_col, components) ==
    [id |-> id, row |-> row, start_col |-> start_col, end_col |-> end_col,
     parent_branch_id |-> parent_branch_id, connection_col |-> connection_col,
     components |-> components]

\* Array.prototype.find / findIndex over the array whose elements satisfy the
\* predicate where flags is TRUE: the first such index, 0 if none.
FirstIndex(flags) ==
    IF \E i \in DOMAIN flags : flags[i]
    THEN CHOOSE i \in DOMAIN flags : flags[i] /\ \A j \in 1..(i - 1) : ~flags[j]
    ELSE 0

\* Array.prototype.sort (stable) on an array of n elements, cmp[<<i, j>>] the
\* comparator's result on elements i and j: the indices in sorted order. Each
\* element is inserted, in order, before the first one it compares smaller than.
RECURSIVE InsertStable(_, _, _, _)
InsertStable(sorted, x, cmp, i) ==
    IF i > Len(sorted) THEN Append(sorted, x)
    ELSE IF cmp[<<x, sorted[i]>>] < 0
         THEN SubSeq(sorted, 1, i - 1) \o <<x>> \o SubSeq(sorted, i, Len(sorted))
         ELSE InsertStable(sorted, x, cmp, i + 1)

RECURSIVE SortFrom(_, _, _, _)
SortFrom(n, cmp, i, acc) ==
    IF i > n THEN acc
    ELSE SortFrom(n, cmp, i + 1, InsertStable(acc, i, cmp, 1))

sort(n, cmp) == SortFrom(n, cmp, 1, << >>)

\* The pushed component left where push put it.
sortByCol_Unsorted(components) == components

\* components.sort((a, b) => a.col - b.col)
sortByCol(components) ==
    LET n == Len(components)
        cmp == [p \in (1..n) \X (1..n) |-> components[p[1]].col - components[p[2]].col]
        sorted == sort(n, cmp)
    IN [k \in 1..n |-> components[sorted[k]]]

NumComponents(bs) ==
    LET RECURSIVE Sum(_)
        Sum(i) == IF i > Len(bs) THEN 0 ELSE Len(bs[i].components) + Sum(i + 1)
    IN Sum(1)

\* ---- LadderStructure (simulation.js)
LadderStructure_initialize ==
    << Branch(0, 0, 0, gridCols - 1, NULL, NULL, << >>) >>

\* findBranchAtRow: index of the first branch on the row, 0 when there is none.
findBranchAtRow(bs, row) ==
    FirstIndex([i \in DOMAIN bs |-> bs[i].row = row])

\* findBranchById: index of the first branch with the id, 0 when there is none.
findBranchById(bs, id) ==
    FirstIndex([i \in DOMAIN bs |-> bs[i].id = id])

\* addComponent of LadderStructure and of LadderData: replace the component
\* at the column, or push and sort; the diagram is unchanged without a branch.
addComponent(bs, row, col, type, address) ==
    LET b == findBranchAtRow(bs, row) IN
    IF b = 0 THEN bs
    ELSE LET existingIndex ==
                 FirstIndex([i \in DOMAIN bs[b].components |->
                                bs[b].components[i].col = col])
             new == Component(type, address, col)
             comps == IF existingIndex # 0
                      THEN [bs[b].components EXCEPT ![existingIndex] = new]
                      ELSE sortByCol(Append(bs[b].components, new))
         IN [bs EXCEPT ![b].components = comps]

\* createBranch: no branch is added without a parent branch on parentRow.
createBranch(bs, nextId, parentRow, connectionCol, newRow, startCol, endCol) ==
    LET p == findBranchAtRow(bs, parentRow) IN
    IF p = 0 THEN bs
    ELSE Append(bs, Branch(nextId, newRow, startCol, endCol, bs[p].id,
                           connectionCol, << >>))

\* removeComponent of LadderStructure: splice the first component at the column.
removeComponent(bs, row, col) ==
    LET b == findBranchAtRow(bs, row) IN
    IF b = 0 THEN bs
    ELSE LET index == FirstIndex([i \in DOMAIN bs[b].components |->
                                     bs[b].components[i].col = col])
         IN IF index = 0 THEN bs
            ELSE [bs EXCEPT ![b].components =
                     SubSeq(bs[b].components, 1, index - 1)
                         \o SubSeq(bs[b].components, index + 1, Len(bs[b].components))]

\* getChildBranches: the branches whose parent_branch_id is the id.
getChildBranches(bs, parentBranchId) ==
    LET isChild(b) == b.parent_branch_id = parentBranchId IN SelectSeq(bs, isChild)

\* cleanupEmptyBranches: the filter reads the branch list as it was before.
cleanupEmptyBranches(bs) ==
    LET keep(branch) == \/ branch.parent_branch_id = NULL
                        \/ Len(branch.components) > 0
                        \/ Len(getChildBranches(bs, branch.id)) > 0
    IN SelectSeq(bs, keep)

\* ---- LadderData (unnamed/part_002)
createEmptyRung ==
    << Branch(0, 0, 0, gridCols - 1, NULL, NULL, << >>),
       Branch(1, 1, 0, gridCols - 1, 0, 0, << >>) >>

addBranch(bs, row, start_col, end_col, connection_col) ==
    IF findBranchAtRow(bs, row) # 0 THEN bs
    ELSE Append(bs, Branch(Len(bs), row, start_col, end_col, 0,
                           connection_col, << >>))

\* removeComponent of LadderData: filter out the components at the column.
LadderData_removeComponent(bs, row, col) ==
    LET b == findBranchAtRow(bs, row)
        notAtCol(c) == c.col # col
    IN IF b = 0 THEN bs
       ELSE [bs EXCEPT ![b].components = SelectSeq(bs[b].components, notAtCol)]

\* removeBranch of LadderData: filter out the branches on the row.
removeBranch(bs, row) ==
    LET notOnRow(b) == b.row # row IN SelectSeq(bs, notOnRow)

\* ---- persistence (toJSON / fromJSON of both diagram classes)
\* A JavaScript object is a record; a key it lacks reads undefined (falsy).
\* The one rung of a diagram.
Rung(bs) == [id |-> 0, branches |-> bs]

\* this.pins of LadderData after loadPins.
LadderData_pins == [inputs |-> <<AddrI0>>, outputs |-> OutputPins]

LadderData_toJSON(bs, pins) == [rungs |-> <<Rung(bs)>>, pins |-> pins]

\* fromJSON that reads data.rungs as absent and builds the empty rung.
LadderData_fromJSON_Default(data) ==
    [rungs |-> <<Rung(createEmptyRung)>>,
     pins |-> IF "pins" \in DOMAIN data THEN data.pins
              ELSE [inputs |-> << >>, outputs |-> << >>]]

\* this.rungs = data.rungs || [createEmptyRung(0)]; this.pins = data.pins || {..}
LadderData_fromJSON(data) ==
    [rungs |-> IF "rungs" \in DOMAIN data THEN data.rungs ELSE <<Rung(createEmptyRung)>>,
     pins |-> IF "pins" \in DOMAIN data THEN data.pins
              ELSE [inputs |-> << >>, outputs |-> << >>]]

\* grid_cols / grid_rows of a LadderStructure (the constructor's values).
LadderStructure_gridCols == 10
LadderStructure_gridRows == 3

LadderStructure_toJSON(bs) ==
    [rungs |-> <<Rung(bs)>>,
     metadata |-> [grid_cols |-> LadderStructure_gridCols,
                   grid_rows |-> LadderStructure_gridRows]]

\* The loop "if (branch.id >= maxBranchId) maxBranchId = branch.id + 1".
RECURSIVE fromJSON_maxBranchId(_, _, _)
fromJSON_maxBranchId(bs, i, max) ==
    IF i > Len(bs) THEN max
    ELSE fromJSON_maxBranchId(bs, i + 1, IF bs[i].id >= max THEN bs[i].id + 1 ELSE max)

\* x || d for a number x.
NumberOr(x, d) == IF x = 0 THEN d ELSE x

LadderStructure_fromJSON(data) ==
    LET rungs == IF "rungs" \in DOMAIN data THEN data.rungs ELSE << >>
        hasMeta == "metadata" \in DOMAIN data
    IN [rungs |-> rungs,
        gridCols |-> IF hasMeta THEN NumberOr(data.metadata.grid_cols, 10) ELSE 10,
        gridRows |-> IF hasMeta THEN NumberOr(data.metadata.grid_rows, 3) ELSE 3,
        nextBranchId |-> IF Len(rungs) = 0 THEN 0 ELSE fromJSON_maxBranchId(rungs[1].branches, 1, 0)]

\* ------------------------------------------------------------- pin table
RECURSIVE initializeList(_, _, _)
initializeList(pins, list, i) ==
    IF i > Len(list) THEN pins
    ELSE initializeList(Put(pins, list[i], FALSE), list, i + 1)

initializePins(pins, inputPins, outputPins) ==
    initializeList(initializeList(pins, inputPins, 1), outputPins, 1)

\* A lookup that answers true for an address the table does not hold.
getPinState_DefaultTrue(pins, address) == (address \notin DOMAIN pins) \/ pins[address]

\* this.pinStates[address] || false
getPinState(pins, address) == GetOrFalse(pins, address)

\* executeScan without the clearing loop: outputs keep their value.
clearOutputsByPrefix_Kept(pins) == pins

\* Object.keys(pinStates).forEach: every key with the 'O:' prefix set to false.
clearOutputsByPrefix(pins) ==
    [a \in DOMAIN pins |-> IF startsWith(a, PrefixO) THEN FALSE ELSE pins[a]]

\* ladderData.pins.outputs.forEach: every listed output set to false.
clearListedOutputs(pins, outputPins) == initializeList(pins, outputPins, 1)

\* ----------------------------------------------------- LadderSimulation
\* (simulation-new.js)  A scan state is [pins, power, comp].
ScanState(pins, power, comp) == [pins |-> pins, power |-> power, comp |-> comp]

\* evaluateComponent whose NO contact ignores the power before it.
LadderSimulation_evaluateComponent_NoSeries(pins, component, powerBefore) ==
    LET pinState == getPinState(pins, component.address) IN
    CASE component.type = "NO" ->
            [powerAfter |-> pinState, isActive |-> pinState, pins |-> pins]
      [] component.type = "NC" ->
            [powerAfter |-> powerBefore /\ ~pinState, isActive |-> ~pinState,
             pins |-> pins]
      [] component.type = "OUT" ->
            [powerAfter |-> powerBefore, isActive |-> powerBefore,
             pins |-> IF powerBefore THEN Put(pins, component.address, TRUE) ELSE pins]
      [] OTHER -> [powerAfter |-> powerBefore, isActive |-> FALSE, pins |-> pins]

\* evaluateComponent whose coil lets no power through.
LadderSimulation_evaluateComponent_CoilBlocks(pins, component, powerBefore) ==
    LET pinState == getPinState(pins, component.address) IN
    CASE component.type = "NO" ->
            [powerAfter |-> powerBefore /\ pinState, isActive |-> pinState,
             pins |-> pins]
      [] component.type = "NC" ->
            [powerAfter |-> powerBefore /\ ~pinState, isActive |-> ~pinState,
             pins |-> pins]
      [] component.type = "OUT" ->
            [powerAfter |-> FALSE, isActive |-> powerBefore,
             pins |-> IF powerBefore THEN Put(pins, component.address, TRUE)
                      ELSE pins]
      [] OTHER ->
            [powerAfter |-> powerBefore, isActive |-> FALSE, pins |-> pins]

LadderSimulation_evaluateComponent(pins, component, powerBefore) ==
    LET pinState == getPinState(pins, component.address) IN
    CASE component.type = "NO" ->
            [powerAfter |-> powerBefore /\ pinState, isActive |-> pinState,
             pins |-> pins]
      [] component.type = "NC" ->
            [powerAfter |-> powerBefore /\ ~pinState, isActive |-> ~pinState,
             pins |-> pins]
      [] component.type = "OUT" ->
            [powerAfter |-> powerBefore, isActive |-> powerBefore,
             pins |-> IF powerBefore THEN Put(pins, component.address, TRUE)
                      ELSE pins]
      [] OTHER ->
            [powerAfter |-> powerBefore, isActive |-> FALSE, pins |-> pins]

\* The loop over branch.components of evaluateBranch, from component i on.
RECURSIVE LadderSimulation_evaluateComponents(_, _, _, _)
LadderSimulation_evaluateComponents(st, branch, i, hasPower) ==
    IF i > Len(branch.components)
    THEN [st |-> st, hasPower |-> hasPower]
    ELSE LET component == branch.components[i]
             before == Put(st.power, <<branch.id, component.col>>, hasPower)
             result == LadderSimulation_evaluateComponent(st.pins, component, hasPower)
             comp == Put(st.comp, <<branch.row, component.col>>, result.isActive)
             after == Put(before, <<branch.id, component.col + 1>>, result.powerAfter)
         IN LadderSimulation_evaluateComponents(
                ScanState(result.pins, after, comp), branch, i + 1, result.powerAfter)

LadderSimulation_evaluateBranch(st, branch, bs) ==
    LET parent == findBranchById(bs, branch.parent_branch_id)
        hasPower == IF branch.parent_branch_id = NULL THEN TRUE
                    ELSE IF parent # 0
                         THEN GetOrFalse(st.power, <<bs[parent].id, branch.connection_col>>)
                         ELSE FALSE
        start == [st EXCEPT !.power = Put(st.power, <<branch.id, branch.start_col>>, hasPower)]
        r == LadderSimulation_evaluateComponents(start, branch, 1, hasPower)
    IN [r.st EXCEPT !.power = Put(r.st.power, <<branch.id, branch.end_col>>, r.hasPower)]

\* The comparator of evaluateLadder: main branches first, then by row.
LadderSimulation_compare(a, b) ==
    IF a.parent_branch_id = NULL /\ b.parent_branch_id # NULL THEN -1
    ELSE IF a.parent_branch_id # NULL /\ b.parent_branch_id = NULL THEN 1
    ELSE a.row - b.row

\* The sorted copy of getAllBranches(), as indices into branches.
LadderSimulation_sortedBranches(bs) ==
    LET n == Len(bs)
        cmp == [p \in (1..n) \X (1..n) |-> LadderSimulation_compare(bs[p[1]], bs[p[2]])]
    IN sort(n, cmp)

LadderSimulation_isWireEnergized(bs, power, row, col) ==
    LET b == findBranchAtRow(bs, row) IN
    IF b = 0 THEN FALSE
    ELSE IF col >= bs[b].start_col /\ col <= bs[b].end_col
         THEN GetOrFalse(power, <<bs[b].id, col>>)
         ELSE FALSE

isComponentActive(comp, row, col) == GetOrFalse(comp, <<row, col>>)

\* ------------------------------------------------------- LadderSimulator
\* (unnamed/part_003)  A scan state is [pins, power, comp]; power is wireStates.
setPinState(pins, address, state) == Put(pins, address, state)

\* wireStates[`${row}-${col}`] = true for every col of from..to
MarkWires(wire, row, from, to) ==
    LET new == {<<row, c>> : c \in from..to}
    IN [k \in (DOMAIN wire) \cup new |-> IF k \in new THEN TRUE ELSE wire[k]]

RECURSIVE LadderSimulator_powerUpTo(_, _, _, _, _)
LadderSimulator_powerUpTo(pins, branch, col, i, hasPower) ==
    IF i > Len(branch.components) THEN hasPower
    ELSE LET component == branch.components[i] IN
         IF component.col >= col THEN hasPower
         ELSE LET p == CASE component.type = "NO" ->
                              hasPower /\ getPinState(pins, component.address)
                         [] component.type = "NC" ->
                              hasPower /\ ~getPinState(pins, component.address)
                         [] OTHER -> hasPower
              IN IF ~p THEN p
                 ELSE LadderSimulator_powerUpTo(pins, branch, col, i + 1, p)

LadderSimulator_evaluatePowerAtColumn(pins, branch, col) ==
    LadderSimulator_powerUpTo(pins, branch, col, 1, branch.row = 0)

\* Returns the component's outgoing power and the pin table it leaves.
LadderSimulator_evaluateComponent(pins, component, inputPower) ==
    IF ~inputPower
    THEN [power |-> FALSE,
          pins |-> IF component.type = "OUT"
                   THEN setPinState(pins, component.address, FALSE)
                   ELSE pins]
    ELSE CASE component.type = "NO" ->
                [power |-> getPinState(pins, component.address), pins |-> pins]
           [] component.type = "NC" ->
                [power |-> ~getPinState(pins, component.address), pins |-> pins]
           [] component.type = "OUT" ->
                [power |-> TRUE, pins |-> setPinState(pins, component.address, TRUE)]
           [] OTHER -> [power |-> FALSE, pins |-> pins]

\* The loop over branch.components of evaluateBranch, from component i on.
RECURSIVE LadderSimulator_evaluateComponents(_, _, _, _, _)
LadderSimulator_evaluateComponents(st, branch, i, currentPower, currentCol) ==
    IF i > Len(branch.components)
    THEN [st EXCEPT !.power = IF currentPower
                              THEN MarkWires(st.power, branch.row, currentCol, branch.end_col)
                              ELSE st.power]
    ELSE LET component == branch.components[i]
             key == <<branch.row, component.col>>
             upTo == IF currentPower
                     THEN MarkWires(st.power, branch.row, currentCol, component.col - 1)
                     ELSE st.power
             r == LadderSimulator_evaluateComponent(st.pins, component, currentPower)
             comp == IF r.power \/ (component.type = "NC" /\ currentPower)
                     THEN Put(st.comp, key, TRUE) ELSE st.comp
             wire == IF r.power THEN Put(upTo, key, TRUE) ELSE upTo
         IN LadderSimulator_evaluateComponents(
                ScanState(r.pins, wire, comp), branch, i + 1, r.power, component.col + 1)

LadderSimulator_evaluateBranch(st, branch, bs) ==
    LET parent == findBranchById(bs, branch.parent_branch_id)
        hasPower == IF branch.row = 0 THEN TRUE
                    ELSE IF branch.connection_col # NULL /\ parent # 0
                         THEN LadderSimulator_evaluatePowerAtColumn(
                                  st.pins, bs[parent], branch.connection_col)
                         ELSE FALSE
    IN IF ~hasPower THEN st
       ELSE LadderSimulator_evaluateComponents(
                [st EXCEPT !.power = Put(st.power, <<branch.row, branch.start_col>>, TRUE)],
                branch, 1, TRUE, branch.start_col)

\* branches.sort((a, b) => a.row - b.row), on the array of LadderData itself.
LadderSimulator_sortedBranches(bs) ==
    LET n == Len(bs)
        cmp == [p \in (1..n) \X (1..n) |-> bs[p[1]].row - bs[p[2]].row]
        sorted == sort(n, cmp)
    IN [k \in 1..n |-> bs[sorted[k]]]

LadderSimulator_isWireEnergized(wire, row, col) == GetOrFalse(wire, <<row, col>>)

\* --------------------------------------------------------- PLCSimulation
\* (unnamed/part_000)  The grid engine with the feedback stabilizer.  A cell
\* of window.grid is [type, address]; an empty cell has type "null".
\* Rows and columns of the model's grids (window.ROWS, window.COLS).
GridRows == 3
GridCols == 2
\* Most non-empty cells of a grid.
MaxCells == 2

GridRowSet == 0..(GridRows - 1)
GridColSet == 0..(GridCols - 1)

NullCell == [type |-> "null", address |-> AddrEmpty]
Cell(type, address) == [type |-> type, address |-> address]

isVertical(cell) == cell.type \in {"VLINE", "BOTH"}
isLine(cell) == cell.type \in {"HLINE", "VLINE", "BOTH"}
isComponent(cell) == cell.type \in {"NO", "NC", "OUT"}

\* The keys initializeBranchPower sets to true.
initializeBranchPower(g, wire) ==
    LET powered(row) == row = 0 \/
            (row > 0 /\ \E col \in GridColSet : isVertical(g[row - 1][col]))
        starts(row) == {c \in GridColSet :
                          g[row][c].type \in {"HLINE", "BOTH", "NO", "NC", "OUT"}}
        startCol(row) == IF row = 0 \/ starts(row) = {} THEN 0
                         ELSE CHOOSE c \in starts(row) : \A d \in starts(row) : c <= d
        stops(row, c) == IF row = 0 THEN ~(g[row][c].type = "null" \/ isLine(g[row][c]))
                         ELSE isComponent(g[row][c])
        marks(row, c) == IF row = 0 THEN TRUE
                         ELSE g[row][c].type = "null" \/ isLine(g[row][c])
        new == {<<row, c>> \in GridRowSet \X GridColSet :
                  /\ powered(row)
                  /\ c >= startCol(row)
                  /\ \A d \in startCol(row)..c : ~stops(row, d)
                  /\ marks(row, c)}
    IN [k \in (DOMAIN wire) \cup new |-> IF k \in new THEN TRUE ELSE wire[k]]

isConnectedToLeftRail(g, targetRow, col) ==
    \/ targetRow = 0
    \/ \E checkCol \in 0..col, r \in 0..(targetRow - 1) :
          \A checkR \in r..(targetRow - 1) : isVertical(g[checkR][checkCol])

checkVerticalPower(g, wire, row, col) ==
    /\ col > 0
    /\ row > 0
    /\ isVertical(g[row - 1][col - 1])
    /\ GetOrFalse(wire, <<row - 1, col - 1>>)

\* Returns whether power passes the cell, and the pin table and component
\* states the cell leaves.
evaluateCell(st, g, row, col) ==
    LET cell == g[row][col]
        key == <<row, col>>
        pinState == getPinState(st.pins, cell.address)
    IN CASE cell.type = "null" -> [pass |-> row = 0, st |-> st]
         [] cell.type \in {"HLINE", "BOTH"} -> [pass |-> TRUE, st |-> st]
         [] cell.type = "VLINE" -> [pass |-> row = 0, st |-> st]
         [] cell.type = "NO" ->
              [pass |-> pinState,
               st |-> [st EXCEPT !.comp = Put(st.comp, key, pinState)]]
         [] cell.type = "NC" ->
              [pass |-> ~pinState,
               st |-> [st EXCEPT !.comp = Put(st.comp, key, ~pinState)]]
         [] cell.type = "OUT" ->
              [pass |-> TRUE,
               st |-> [st EXCEPT
                         !.pins = IF cell.address # AddrEmpty /\ startsWith(cell.address, PrefixO)
                                  THEN Put(st.pins, cell.address, TRUE)
                                  ELSE st.pins,
                         !.comp = Put(st.comp, key, TRUE)]]
         [] OTHER -> [pass |-> TRUE, st |-> st]

\* The loop over rows of evaluateColumn, from row on; columnPower is a
\* function on the rows already done.
RECURSIVE evaluateColumnRows(_, _, _, _, _)
evaluateColumnRows(st, g, col, row, columnPower) ==
    IF row >= GridRows THEN [st |-> st, columnPower |-> columnPower]
    ELSE LET incoming ==
                 IF col = 0
                 THEN (IF row > 0 THEN isConnectedToLeftRail(g, row, col) ELSE TRUE)
                 ELSE GetOrFalse(st.power, <<row, col - 1>>)
                      \/ checkVerticalPower(g, st.power, row, col)
             r == IF incoming THEN evaluateCell(st, g, row, col)
                  ELSE [pass |-> FALSE, st |-> st]
         IN evaluateColumnRows(r.st, g, col, row + 1,
                [x \in 0..row |-> IF x = row THEN r.pass ELSE columnPower[x]])

RECURSIVE handleParallelPaths(_, _, _, _)
handleParallelPaths(g, col, row, columnPower) ==
    IF row >= GridRows - 1 THEN columnPower
    ELSE IF isVertical(g[row][col])
         THEN LET down == IF columnPower[row]
                          THEN [columnPower EXCEPT ![row + 1] = TRUE]
                          ELSE columnPower
                  up == IF down[row + 1] THEN [down EXCEPT ![row] = TRUE] ELSE down
              IN handleParallelPaths(g, col, row + 1, up)
         ELSE handleParallelPaths(g, col, row + 1, columnPower)

evaluateColumn(st, g, col) ==
    LET r == evaluateColumnRows(st, g, col, 0, << >>)
    IN [st |-> r.st, columnPower |-> handleParallelPaths(g, col, 0, r.columnPower)]

\* evaluateLadder of the grid engine, from column col on.
RECURSIVE PLCSimulation_evaluateLadder(_, _, _)
PLCSimulation_evaluateLadder(st, g, col) ==
    IF col >= GridCols THEN st
    ELSE LET r == evaluateColumn(st, g, col)
             stored == [k \in (DOMAIN r.st.power) \cup {<<row, col>> : row \in GridRowSet} |->
                          IF k[2] = col /\ k[1] \in GridRowSet
                          THEN r.columnPower[k[1]] ELSE r.st.power[k]]
         IN PLCSimulation_evaluateLadder([r.st EXCEPT !.power = stored], g, col + 1)

\* previousOutputStates: the 'O:' entries of the pin table.
outputStates(pins) ==
    [a \in {k \in DOMAIN pins : startsWith(k, PrefixO)} |-> pins[a]]

\* One iteration of the while loop of executeScanCycle, after iterations++.
executeScanCycle_pass(pins, g) ==
    PLCSimulation_evaluateLadder(
        ScanState(clearOutputsByPrefix(pins), initializeBranchPower(g, EmptyMap), EmptyMap),
        g, 0)

\* "Check if any output state changed"
\* A comparison that reports a change after every pass.
outputsChanged_Always(pins, previous) == TRUE

outputsChanged(pins, previous) ==
    \E a \in DOMAIN pins :
        /\ startsWith(a, PrefixO)
        /\ (a \notin DOMAIN previous \/ pins[a] # previous[a])

PLCSimulation_isWireEnergized(wire, row, col) == GetOrFalse(wire, <<row, col>>)

\* ------------------------------------- PLCSimulation (simulation.js)
\* The non-iterating grid engine. wireStates keys are <<row, col, position>>,
\* position one of "in", "out", "branch-start".
\* if (cell.address && cell.address.startsWith('O:'))
isOutputCoil(cell) == cell.address # AddrEmpty /\ startsWith(cell.address, PrefixO)

\* checkBranchPower, the loop from row r on.
RECURSIVE checkBranchPowerFrom(_, _, _, _)
checkBranchPowerFrom(g, wire, r, col) ==
    IF r >= GridRows THEN FALSE
    ELSE IF isVertical(g[r][col])
         THEN IF GetOrFalse(wire, <<r, col, "out">>) THEN TRUE
              ELSE checkBranchPowerFrom(g, wire, r + 1, col)
         ELSE FALSE

checkBranchPower(g, wire, row, col) == checkBranchPowerFrom(g, wire, row + 1, col)

\* evaluateRung(grid, 0, COLS), the loop from column col on.
RECURSIVE evaluateRung(_, _, _, _)
evaluateRung(st, g, col, powerState) ==
    IF col >= GridCols THEN st
    ELSE LET cell == g[0][col]
             in == [st EXCEPT !.power = Put(st.power, <<0, col, "in">>, powerState)]
             pinState == getPinState(st.pins, cell.address)
             p == CASE cell.type = "VLINE" ->
                         powerState \/ checkBranchPower(g, in.power, 0, col)
                    [] cell.type = "NO" -> powerState /\ pinState
                    [] cell.type = "NC" -> powerState /\ ~pinState
                    [] OTHER -> powerState
             pins == IF cell.type = "OUT" /\ isOutputCoil(cell)
                     THEN Put(in.pins, cell.address, powerState) ELSE in.pins
             comp == IF cell.type \in {"NO", "NC"} \/ (cell.type = "OUT" /\ isOutputCoil(cell))
                     THEN Put(in.comp, <<0, col>>, p) ELSE in.comp
             power == IF cell.type \in {"null", "HLINE", "BOTH", "VLINE", "NO", "NC", "OUT"}
                      THEN Put(in.power, <<0, col, "out">>, p) ELSE in.power
         IN evaluateRung(ScanState(pins, power, comp), g, col + 1, p)

\* The first loop of evaluateBranchRow (startCol to the right), from col on.
RECURSIVE evaluateBranchRowRight(_, _, _, _, _)
evaluateBranchRowRight(st, g, row, col, powerState) ==
    IF col >= GridCols THEN st
    ELSE LET cell == g[row][col]
             in == Put(st.power, <<row, col, "in">>, powerState)
             pinState == getPinState(st.pins, cell.address)
             p == CASE cell.type = "NO" -> powerState /\ pinState
                    [] cell.type = "NC" -> powerState /\ ~pinState
                    [] OTHER -> powerState
             upper == IF cell.type = "VLINE" /\ g[row - 1][col].type # "null" /\ powerState
                      THEN Put(in, <<row - 1, col, "out">>,
                               GetOrFalse(in, <<row - 1, col, "out">>) \/ powerState)
                      ELSE in
             pins == IF cell.type = "OUT" /\ isOutputCoil(cell)
                     THEN Put(st.pins, cell.address,
                              GetOrFalse(st.pins, cell.address) \/ powerState)
                     ELSE st.pins
             comp == IF cell.type \in {"NO", "NC"} \/ (cell.type = "OUT" /\ isOutputCoil(cell))
                     THEN Put(st.comp, <<row, col>>, p) ELSE st.comp
             power == IF cell.type \in {"null", "HLINE", "BOTH", "VLINE", "NO", "NC", "OUT"}
                      THEN Put(upper, <<row, col, "out">>, p) ELSE upper
         IN evaluateBranchRowRight(ScanState(pins, power, comp), g, row, col + 1, p)

\* The second loop of evaluateBranchRow (startCol - 1 to the left), from col on.
RECURSIVE evaluateBranchRowLeft(_, _, _, _)
evaluateBranchRowLeft(wire, g, row, col) ==
    IF col < 0 THEN wire
    ELSE IF g[row][col].type \notin {"HLINE", "BOTH"} THEN wire
         ELSE evaluateBranchRowLeft(
                  Put(Put(wire, <<row, col, "in">>, TRUE), <<row, col, "out">>, TRUE),
                  g, row, col - 1)

evaluateBranchRow(st, g, row, startCol) ==
    LET right == evaluateBranchRowRight(st, g, row, startCol, TRUE)
    IN [right EXCEPT !.power = evaluateBranchRowLeft(right.power, g, row, startCol - 1)]

\* evaluateBranches: the loops over col and row, from (col, row) on.
RECURSIVE evaluateBranches(_, _, _, _)
evaluateBranches(st, g, col, row) ==
    IF col >= GridCols THEN st
    ELSE IF row >= GridRows - 1 THEN evaluateBranches(st, g, col + 1, 0)
    ELSE IF isVertical(g[row][col]) /\ GetOrFalse(st.power, <<row, col, "in">>)
         THEN LET start == [st EXCEPT !.power =
                               Put(st.power, <<row + 1, col, "branch-start">>, TRUE)]
              IN evaluateBranches(evaluateBranchRow(start, g, row + 1, col), g, col, row + 1)
         ELSE evaluateBranches(st, g, col, row + 1)

\* executeScanCycle: wire and component states cleared, then evaluateLadder
\* (evaluateRung on row 0, then evaluateBranches); the pin table is not cleared.
GridSimulation_executeScanCycle(pins, g) ==
    evaluateBranches(evaluateRung(ScanState(pins, EmptyMap, EmptyMap), g, 0, TRUE), g, 0, 0)

\* isWireEnergized(row, col, position = 'out')
GridSimulation_isWireEnergized(wire, row, col) == GetOrFalse(wire, <<row, col, "out">>)

\* ================================================================ behaviour
LadderSimulation == "LadderSimulation"
LadderSimulator == "LadderSimulator"
PLCSimulation == "PLCSimulation"
\* The PLCSimulation class of simulation.js.
GridSimulation == "PLCSimulation (simulation.js)"

\* Addresses the editing operations bind components to.
Addresses == {AddrI0, AddrO0}
GridAddresses == {AddrI0, AddrO0}
\* Positions the renderer polls.
ObservedAddresses == {AddrI0, AddrI1, AddrO0, AddrEmpty}
ObservedRows == 0..(MaxBranches - 1)
ObservedCols == 0..(MaxCol + 2)

EmptyGrid == [r \in GridRowSet |-> [c \in GridColSet |-> NullCell]]

isWireEnergized(row, col) ==
    CASE engine = LadderSimulation ->
            LadderSimulation_isWireEnergized(branches, branchPowerStates, row, col)
      [] engine = LadderSimulator -> LadderSimulator_isWireEnergized(wireStates, row, col)
      [] engine = GridSimulation -> GridSimulation_isWireEnergized(wireStates, row, col)
      [] OTHER -> PLCSimulation_isWireEnergized(wireStates, row, col)

\* What getPinState / isWireEnergized / isComponentActive answer now.
Observe ==
    [valid |-> TRUE,
     pins |-> [a \in ObservedAddresses |-> getPinState(pinStates, a)],
     wire |-> [k \in ObservedRows \X ObservedCols |-> isWireEnergized(k[1], k[2])],
     comp |-> [k \in ObservedRows \X ObservedCols |->
                 isComponentActive(componentStates, k[1], k[2])]]

NoScan == [valid |-> FALSE, pins |-> EmptyMap, wire |-> EmptyMap, comp |-> EmptyMap]

\* No scan is in progress: an operation may be called.
Quiet == pc \in {"idle", "done"}

\* What an operation that runs no scan leaves of the scan bookkeeping.
NoScanRun ==
    /\ pc' = "idle"
    /\ order' = << >>
    /\ bi' = 0
    /\ iterations' = 0
    /\ stateChanged' = FALSE
    /\ previousOutputStates' = EmptyMap
    /\ scanStart' = EmptyMap
    /\ lastScan' = NoScan

\* ---- executeScan / executeScanCycle entered with pin table `pins`
LadderSimulation_executeScan(pins) ==
    LET ord == LadderSimulation_sortedBranches(branches) IN
    /\ branchPowerStates' = EmptyMap
    /\ componentStates' = EmptyMap
    /\ pinStates' = clearOutputsByPrefix(pins)
    /\ order' = ord
    /\ bi' = 1
    /\ pc' = IF Len(ord) = 0 THEN "done" ELSE "evaluateLadder"
    /\ scanStart' = pins
    /\ lastScan' = IF pc = "done" /\ pins = pinStates THEN Observe ELSE NoScan
    /\ UNCHANGED <<branches, wireStates, iterations, stateChanged, previousOutputStates>>

LadderSimulator_executeScan(pins) ==
    LET sorted == LadderSimulator_sortedBranches(branches) IN
    /\ wireStates' = EmptyMap
    /\ componentStates' = EmptyMap
    /\ pinStates' = clearListedOutputs(pins, OutputPins)
    /\ branches' = sorted
    /\ order' = [i \in 1..Len(sorted) |-> i]
    /\ bi' = 1
    /\ pc' = IF Len(sorted) = 0 THEN "done" ELSE "evaluateLadder"
    /\ scanStart' = pins
    /\ lastScan' = IF pc = "done" /\ pins = pinStates THEN Observe ELSE NoScan
    /\ UNCHANGED <<branchPowerStates, iterations, stateChanged, previousOutputStates>>

PLCSimulation_executeScanCycle(pins) ==
    /\ iterations' = 0
    /\ stateChanged' = TRUE
    /\ previousOutputStates' = EmptyMap
    /\ pinStates' = pins
    /\ pc' = "executeScanCycle"
    /\ scanStart' = pins
    /\ lastScan' = IF pc = "done" /\ pins = pinStates THEN Observe ELSE NoScan
    /\ UNCHANGED <<branches, branchPowerStates, wireStates, componentStates, order, bi>>

\* executeScanCycle of simulation.js, whole: it has no loop to cut.
GridSimulation_scan(pins) ==
    LET st == GridSimulation_executeScanCycle(pins, grid) IN
    /\ pinStates' = st.pins
    /\ wireStates' = st.power
    /\ componentStates' = st.comp
    /\ pc' = "done"
    /\ scanStart' = pins
    /\ lastScan' = IF pc = "done" /\ pins = pinStates THEN Observe ELSE NoScan
    /\ UNCHANGED <<branches, branchPowerStates, order, bi, iterations, stateChanged,
                   previousOutputStates>>

executeScan(pins) ==
    CASE engine = LadderSimulation -> LadderSimulation_executeScan(pins)
      [] engine = LadderSimulator -> LadderSimulator_executeScan(pins)
      [] engine = GridSimulation -> GridSimulation_scan(pins)
      [] OTHER -> PLCSimulation_executeScanCycle(pins)

\* ---- steps of a scan in progress
\* One evaluateBranch call of LadderSimulation.evaluateLadder.
LadderSimulation_evaluateLadder ==
    /\ engine = LadderSimulation
    /\ pc = "evaluateLadder"
    /\ LET st == LadderSimulation_evaluateBranch(
                    ScanState(pinStates, branchPowerStates, componentStates),
                    branches[order[bi]], branches)
       IN /\ pinStates' = st.pins
          /\ branchPowerStates' = st.power
          /\ componentStates' = st.comp
    /\ bi' = bi + 1
    /\ pc' = IF bi = Len(order) THEN "done" ELSE pc
    /\ UNCHANGED <<ui, engine, branches, nextBranchId, grid, isRunning, wireStates, order,
                   iterations, stateChanged, previousOutputStates, scanStart, lastScan>>

\* One evaluateBranch call of LadderSimulator.evaluateLadder.
LadderSimulator_evaluateLadder ==
    /\ engine = LadderSimulator
    /\ pc = "evaluateLadder"
    /\ LET st == LadderSimulator_evaluateBranch(
                    ScanState(pinStates, wireStates, componentStates),
                    branches[order[bi]], branches)
       IN /\ pinStates' = st.pins
          /\ wireStates' = st.power
          /\ componentStates' = st.comp
    /\ bi' = bi + 1
    /\ pc' = IF bi = Len(order) THEN "done" ELSE pc
    /\ UNCHANGED <<ui, engine, branches, nextBranchId, grid, isRunning, branchPowerStates,
                   order, iterations, stateChanged, previousOutputStates, scanStart,
                   lastScan>>

\* One iteration of the while loop of executeScanCycle.
PLCSimulation_iterate ==
    /\ engine = PLCSimulation
    /\ pc = "executeScanCycle"
    /\ stateChanged /\ iterations < MAX_ITERATIONS
    /\ LET st == executeScanCycle_pass(pinStates, grid)
       IN /\ pinStates' = st.pins
          /\ wireStates' = st.power
          /\ componentStates' = st.comp
          /\ stateChanged' = outputsChanged(st.pins, outputStates(pinStates))
    /\ iterations' = iterations + 1
    /\ previousOutputStates' = outputStates(pinStates)
    /\ UNCHANGED <<ui, engine, branches, nextBranchId, grid, isRunning, branchPowerStates,
                   pc, order, bi, scanStart, lastScan>>

\* The while loop of executeScanCycle is left.
PLCSimulation_stable ==
    /\ engine = PLCSimulation
    /\ pc = "executeScanCycle"
    /\ ~(stateChanged /\ iterations < MAX_ITERATIONS)
    /\ pc' = "done"
    /\ UNCHANGED <<ui, engine, branches, nextBranchId, grid, pinStates, isRunning,
                   branchPowerStates, wireStates, componentStates, order, bi, iterations,
                   stateChanged, previousOutputStates, scanStart, lastScan>>

\* ---- the public surface
Start ==
    /\ Quiet
    /\ isRunning' = TRUE
    /\ executeScan(pinStates)
    /\ UNCHANGED <<ui, engine, nextBranchId, grid>>

\* A direct scan request (executeScan / executeScanCycle are public methods).
Scan ==
    /\ Quiet
    /\ executeScan(pinStates)
    /\ UNCHANGED <<ui, engine, nextBranchId, grid, isRunning>>

\* stop that leaves the results of the last scan in place.
Stop_KeepsStates ==
    /\ Quiet
    /\ isRunning' = FALSE
    /\ pinStates' = IF engine \in {PLCSimulation, GridSimulation}
                    THEN clearOutputsByPrefix(pinStates)
                    ELSE pinStates
    /\ NoScanRun
    /\ UNCHANGED <<ui, engine, branches, nextBranchId, grid, branchPowerStates, wireStates,
                   componentStates>>

Stop ==
    /\ Quiet
    /\ isRunning' = FALSE
    /\ pinStates' = IF engine \in {PLCSimulation, GridSimulation}
                    THEN clearOutputsByPrefix(pinStates)
                    ELSE pinStates
    /\ branchPowerStates' = EmptyMap
    /\ wireStates' = EmptyMap
    /\ componentStates' = EmptyMap
    /\ NoScanRun
    /\ UNCHANGED <<ui, engine, branches, nextBranchId, grid>>

\* !pinStates[address]
toggled(pins, address) == Put(pins, address, ~GetOrFalse(pins, address))

\* toggleInput of LadderSimulation and of PLCSimulation.
toggleInput(address) ==
    /\ Quiet
    /\ engine \in {LadderSimulation, PLCSimulation, GridSimulation}
    /\ startsWith(address, PrefixI) \/ startsWith(address, PrefixO)
    /\ IF isRunning
       THEN executeScan(toggled(pinStates, address))
       ELSE /\ pinStates' = toggled(pinStates, address)
            /\ NoScanRun
            /\ UNCHANGED <<branches, branchPowerStates, wireStates, componentStates>>
    /\ UNCHANGED <<ui, engine, nextBranchId, grid, isRunning>>

\* toggleInput of LadderSimulator: nothing happens unless running.
LadderSimulator_toggleInput(address) ==
    /\ Quiet
    /\ engine = LadderSimulator
    /\ isRunning
    /\ executeScan(toggled(pinStates, address))
    /\ UNCHANGED <<ui, engine, nextBranchId, grid, isRunning>>

\* Object.keys(this.pinStates).forEach(address => pinStates[address] = false)
allPinsFalse(pins) == [a \in DOMAIN pins |-> FALSE]

\* reset. LadderSimulation and PLCSimulation of part_000: stop(), then every
\* key of the pin table set to false. LadderSimulator: stop(), then
\* initializePins() over the listed pins. PLCSimulation of simulation.js: the
\* class body defines reset twice and the second definition is the method:
\* the 'O:' keys set to false, isRunning and the scan results left alone.
Reset ==
    /\ Quiet
    /\ CASE engine = GridSimulation ->
              /\ pinStates' = clearOutputsByPrefix(pinStates)
              /\ UNCHANGED <<isRunning, branchPowerStates, wireStates, componentStates>>
         [] engine = LadderSimulator ->
              /\ isRunning' = FALSE
              /\ pinStates' = initializePins(pinStates, LadderData_pins.inputs,
                                             LadderData_pins.outputs)
              /\ branchPowerStates' = EmptyMap
              /\ wireStates' = EmptyMap
              /\ componentStates' = EmptyMap
         [] OTHER ->
              /\ isRunning' = FALSE
              /\ pinStates' = allPinsFalse(IF engine = PLCSimulation
                                           THEN clearOutputsByPrefix(pinStates)
                                           ELSE pinStates)
              /\ branchPowerStates' = EmptyMap
              /\ wireStates' = EmptyMap
              /\ componentStates' = EmptyMap
    /\ NoScanRun
    /\ UNCHANGED <<ui, engine, branches, nextBranchId, grid>>

\* ---- editing operations
\* The diagram is edited while the simulation is stopped and holds no scan
\* result (app.js edits only when not running); its size stays bounded.
Editable == Quiet /\ ~isRunning /\ branchPowerStates = EmptyMap
            /\ wireStates = EmptyMap /\ componentStates = EmptyMap

DiagramSize(bs) == Len(bs) + NumComponents(bs)

Edited(bs) ==
    /\ Len(bs) <= MaxBranches
    /\ DiagramSize(bs) <= MaxSize
    /\ branches' = bs
    /\ NoScanRun
    /\ UNCHANGED <<ui, engine, grid, pinStates, isRunning, branchPowerStates, wireStates,
                   componentStates>>

AddComponent(row, col, type, address) ==
    /\ Editable
    /\ engine \in {LadderSimulation, LadderSimulator}
    /\ Edited(addComponent(branches, row, col, type, address))
    /\ UNCHANGED nextBranchId

CreateBranch(parentRow, connectionCol, newRow) ==
    /\ Editable
    /\ engine = LadderSimulation
    /\ findBranchAtRow(branches, parentRow) # 0
    /\ nextBranchId <= MaxBranchId
    /\ Edited(createBranch(branches, nextBranchId, parentRow, connectionCol, newRow,
                           0, gridCols - 1))
    /\ nextBranchId' = nextBranchId + 1

AddBranch(row, connection_col) ==
    /\ Editable
    /\ engine = LadderSimulator
    /\ Edited(addBranch(branches, row, 0, gridCols - 1, connection_col))
    /\ UNCHANGED nextBranchId

RemoveComponent(row, col) ==
    /\ Editable
    /\ engine \in {LadderSimulation, LadderSimulator}
    /\ Edited(IF engine = LadderSimulation THEN removeComponent(branches, row, col)
              ELSE LadderData_removeComponent(branches, row, col))
    /\ UNCHANGED nextBranchId

RemoveBranch(row) ==
    /\ Editable
    /\ engine = LadderSimulator
    /\ Edited(removeBranch(branches, row))
    /\ UNCHANGED nextBranchId

CleanupEmptyBranches ==
    /\ Editable
    /\ engine = LadderSimulation
    /\ Edited(cleanupEmptyBranches(branches))
    /\ UNCHANGED nextBranchId

\* clear: the ids restart and initialize() builds the main branch again.
Clear ==
    /\ Editable
    /\ engine = LadderSimulation
    /\ Edited(LadderStructure_initialize)
    /\ nextBranchId' = 1

\* fromJSON(toJSON()): the saved diagram is loaded back.
LoadJSON ==
    /\ Editable
    /\ engine \in {LadderSimulation, LadderSimulator}
    /\ IF engine = LadderSimulation
       THEN LET loaded == LadderStructure_fromJSON(LadderStructure_toJSON(branches))
            IN /\ Len(loaded.rungs) > 0
               /\ Edited(loaded.rungs[1].branches)
               /\ nextBranchId' = loaded.nextBranchId
       ELSE LET loaded == LadderData_fromJSON(LadderData_toJSON(branches, LadderData_pins))
            IN /\ Edited(loaded.rungs[1].branches)
               /\ UNCHANGED nextBranchId

\* ---- specifications
\* Grids of at most MaxCells non-empty cells.
GridCells ==
    {Cell(t, AddrEmpty) : t \in {"HLINE", "VLINE", "BOTH"}}
        \cup {Cell(t, a) : t \in Types, a \in GridAddresses}

InitCommon ==
    /\ isRunning = FALSE
    /\ branchPowerStates = EmptyMap
    /\ wireStates = EmptyMap
    /\ componentStates = EmptyMap
    /\ pc = "idle"
    /\ order = << >>
    /\ bi = 0
    /\ iterations = 0
    /\ stateChanged = FALSE
    /\ previousOutputStates = EmptyMap
    /\ scanStart = EmptyMap
    /\ lastScan = NoScan
    /\ isSimulationRunning = FALSE
    /\ currentTool = "NO"
    /\ dialog = << >>

\* The engines as constructed, with the pins initialized; the grid engine
\* on any grid of the bounded family.
Init ==
    /\ engine \in {LadderSimulation, LadderSimulator, PLCSimulation}
    /\ pinStates = initializePins(EmptyMap, <<AddrI0>>, OutputPins)
    /\ CASE engine = LadderSimulation ->
              /\ branches = LadderStructure_initialize
              /\ nextBranchId = 1
              /\ grid = EmptyGrid
         [] engine = LadderSimulator ->
              /\ branches = createEmptyRung
              /\ nextBranchId = 0
              /\ grid = EmptyGrid
         [] OTHER ->
              /\ branches = << >>
              /\ nextBranchId = 0
              /\ \E S \in {T \in SUBSET (GridRowSet \X GridColSet) : Cardinality(T) <= MaxCells} :
                    \E f \in [S -> GridCells] :
                       grid = [r \in GridRowSet |-> [c \in GridColSet |->
                                  IF <<r, c>> \in S THEN f[<<r, c>>] ELSE NullCell]]
    /\ InitCommon

Next ==
    \/ Start
    \/ Scan
    \/ Stop
    \/ \E a \in DOMAIN pinStates : toggleInput(a)
    \/ \E a \in DOMAIN pinStates : LadderSimulator_toggleInput(a)
    \/ LadderSimulation_evaluateLadder
    \/ LadderSimulator_evaluateLadder
    \/ PLCSimulation_iterate
    \/ PLCSimulation_stable
    \/ \E row \in Rows, col \in Cols, type \in Types, a \in Addresses :
          AddComponent(row, col, type, a)
    \/ \E parentRow \in Rows, connectionCol \in Cols, newRow \in Rows \ {0} :
          CreateBranch(parentRow, connectionCol, newRow)
    \/ \E row \in Rows, connection_col \in Cols : AddBranch(row, connection_col)

Spec == Init /\ [][Next]_vars

\* ---- the diagram under every editing operation, scanned by its engine
InitEdit ==
    /\ engine \in {LadderSimulation, LadderSimulator}
    /\ pinStates = initializePins(EmptyMap, <<AddrI0>>, OutputPins)
    /\ IF engine = LadderSimulation
       THEN branches = LadderStructure_initialize /\ nextBranchId = 1
       ELSE branches = createEmptyRung /\ nextBranchId = 0
    /\ grid = EmptyGrid
    /\ InitCommon

NextEdit ==
    \/ \E row \in Rows, col \in Cols, type \in Types, a \in Addresses :
          AddComponent(row, col, type, a)
    \/ \E row \in Rows, col \in Cols : RemoveComponent(row, col)
    \/ \E parentRow \in Rows, connectionCol \in Cols, newRow \in Rows \ {0} :
          CreateBranch(parentRow, connectionCol, newRow)
    \/ CleanupEmptyBranches
    \/ Clear
    \/ \E row \in Rows, connection_col \in Cols : AddBranch(row, connection_col)
    \/ \E row \in Rows : RemoveBranch(row)
    \/ LoadJSON
    \/ Scan
    \/ LadderSimulation_evaluateLadder
    \/ LadderSimulator_evaluateLadder

SpecEdit == InitEdit /\ [][NextEdit]_vars

\* ---- the branch-creating operations with every argument chosen by the caller
\* Spans a caller hands to createBranch / addBranch.
Spans == {sp \in Cols \X Cols : sp[1] <= sp[2]}

CreateBranchSpan(parentRow, connectionCol, newRow, startCol, endCol) ==
    /\ Editable
    /\ engine = LadderSimulation
    /\ findBranchAtRow(branches, parentRow) # 0
    /\ nextBranchId <= MaxBranchId
    /\ Edited(createBranch(branches, nextBranchId, parentRow, connectionCol, newRow,
                           startCol, endCol))
    /\ nextBranchId' = nextBranchId + 1

AddBranchSpan(row, start_col, end_col, connection_col) ==
    /\ Editable
    /\ engine = LadderSimulator
    /\ findBranchAtRow(branches, row) = 0
    /\ Edited(addBranch(branches, row, start_col, end_col, connection_col))
    /\ UNCHANGED nextBranchId

NextBranch ==
    \/ \E parentRow \in Rows, connectionCol \in Cols, newRow \in Rows \ {0}, sp \in Spans :
          CreateBranchSpan(parentRow, connectionCol, newRow, sp[1], sp[2])
    \/ \E row \in Rows, sp \in Spans, connection_col \in Cols :
          AddBranchSpan(row, sp[1], sp[2], connection_col)

SpecBranch == InitEdit /\ [][NextBranch]_vars

\* ---- scenario diagrams: the series rung and the two-branch parallel rung
\* Columns of the scenario diagrams are 0..ScenarioMaxCol.
ScenarioMaxCol == 5
\* end_col of the branches of a 10-column diagram.
ScenarioEndCol == 9
ScenarioCols == 0..ScenarioMaxCol

ScenarioMain(components) == Branch(0, 0, 0, ScenarioEndCol, NULL, NULL, components)
ScenarioChild(components) == Branch(1, 1, 0, ScenarioEndCol, 0, 0, components)

\* Main rung: NO a, NO b, OUT O:0/0 at ascending columns.
SeriesRungs ==
    {<<Component("NO", a, c1), Component("NO", b, c2), Component("OUT", AddrO0, c3)>> :
        <<a, b, c1, c2, c3>> \in
            {t \in {AddrI0, AddrI1} \X {AddrI0, AddrI1} \X ScenarioCols \X ScenarioCols
                     \X ScenarioCols : t[3] < t[4] /\ t[4] < t[5]}}

\* A branch NO a, OUT O:0/0 at ascending columns.
ContactCoilRungs(a) ==
    {<<Component("NO", a, c[1]), Component("OUT", AddrO0, c[2])>> :
        c \in {d \in ScenarioCols \X ScenarioCols : d[1] < d[2]}}

\* Columns of the tapped diagrams (components and connection points) are
\* 0..TapMaxCol.
TapMaxCol == 3
TapCols == 0..TapMaxCol

\* A branch with no component or with one contact.
ContactRungs(types, a) ==
    {<< >>} \cup {<<Component(t, a, c)>> : t \in types, c \in TapCols}

\* Diagrams with branches tapping their parent at any column: on
\* LadderStructure a child of main (createBranch(0, c1, 1, 0, 9)) and possibly
\* a child of that child (createBranch(1, c2, 2, 0, 9)); on LadderData the
\* initial rung and a branch added by addBranch(2, 0, 9, c1).
TapDiagrams(e) ==
    IF e = LadderSimulation
    THEN {<<ScenarioMain(m), Branch(1, 1, 0, ScenarioEndCol, 0, c1, k)>> :
             m \in ContactRungs({"NO", "NC"}, AddrI0), c1 \in TapCols,
             k \in ContactRungs({"NO"}, AddrI1)}
         \cup {<<ScenarioMain(m), Branch(1, 1, 0, ScenarioEndCol, 0, c1, k),
                 Branch(2, 2, 0, ScenarioEndCol, 1, c2, << >>)>> :
                 m \in ContactRungs({"NO", "NC"}, AddrI0), c1 \in TapCols,
                 k \in ContactRungs({"NO"}, AddrI1), c2 \in TapCols}
    ELSE {<<ScenarioMain(m), ScenarioChild(<< >>),
            Branch(2, 2, 0, ScenarioEndCol, 0, c1, k)>> :
             m \in ContactRungs({"NO", "NC"}, AddrI0), c1 \in TapCols,
             k \in ContactRungs({"NO"}, AddrI1)}

\* A main rung with one component of any type (also a type the engines do
\* not know), bound to a listed pin, to no address or to an address absent
\* from the pin table, followed by a coil on O:0/0.
ComponentRungs ==
    {<<Component(t, a, c), Component("OUT", AddrO0, TapMaxCol + 1)>> :
        t \in Types \cup {"HLINE"}, a \in {AddrI0, AddrEmpty, AddrI7}, c \in TapCols}

ComponentDiagrams(e) ==
    {IF e = LadderSimulation THEN <<ScenarioMain(m)>>
     ELSE <<ScenarioMain(m), ScenarioChild(<< >>)>> : m \in ComponentRungs}

\* The diagrams addComponent and createBranch / addBranch build for the
\* scenarios.
ScenarioDiagrams(e) ==
    {IF e = LadderSimulation THEN <<ScenarioMain(m)>>
     ELSE <<ScenarioMain(m), ScenarioChild(<< >>)>> : m \in SeriesRungs}
    \cup {<<ScenarioMain(m), ScenarioChild(c)>> :
            m \in ContactCoilRungs(AddrI0), c \in ContactCoilRungs(AddrI1)}
    \cup TapDiagrams(e)
    \cup ComponentDiagrams(e)

InitScenario ==
    /\ engine \in {LadderSimulation, LadderSimulator}
    /\ pinStates = initializePins(EmptyMap, InputPins, OutputPins)
    /\ branches \in ScenarioDiagrams(engine)
    /\ nextBranchId = Len(branches)
    /\ grid = EmptyGrid
    /\ InitCommon

NextScenario ==
    \/ Start
    \/ Scan
    \/ Stop
    \/ \E a \in DOMAIN pinStates : toggleInput(a)
    \/ \E a \in DOMAIN pinStates : LadderSimulator_toggleInput(a)
    \/ LadderSimulation_evaluateLadder
    \/ LadderSimulator_evaluateLadder

SpecScenario == InitScenario /\ [][NextScenario]_vars

\* ================================================================== claims
\* A scan has just completed and nothing was called since.
ScanDone == pc = "done"

IsInputAddress(a) == startsWith(a, PrefixI)
IsOutputAddress(a) == startsWith(a, PrefixO)

\* Some OUT coil other than the one at position i of branch b is bound to address c.
OtherCoilOn(c, b, i) ==
    \E k \in 1..Len(branches) : \E j \in 1..Len(branches[k].components) :
        /\ <<k, j>> # <<b, i>>
        /\ branches[k].components[j].type = "OUT"
        /\ branches[k].components[j].address = c

\* The main branch is NO a, NO b, OUT c with a, b inputs and c an output that
\* no other coil drives.
SeriesRung(b) ==
    /\ b \in 1..Len(branches)
    /\ branches[b].parent_branch_id = NULL
    /\ branches[b].row = 0
    /\ Len(branches[b].components) = 3
    /\ branches[b].components[1].type = "NO"
    /\ branches[b].components[2].type = "NO"
    /\ branches[b].components[3].type = "OUT"
    /\ IsInputAddress(branches[b].components[1].address)
    /\ IsInputAddress(branches[b].components[2].address)
    /\ IsOutputAddress(branches[b].components[3].address)
    /\ ~OtherCoilOn(branches[b].components[3].address, b, 3)

\* A branch that is NO (input address), OUT O:0/0.
ContactCoil(b) ==
    /\ Len(branches[b].components) = 2
    /\ branches[b].components[1].type = "NO"
    /\ IsInputAddress(branches[b].components[1].address)
    /\ branches[b].components[2].type = "OUT"
    /\ branches[b].components[2].address = AddrO0

\* Two branches, the main rung and a child tapping it at its start column,
\* each NO (input), OUT O:0/0.
ParallelRungs ==
    /\ Len(branches) = 2
    /\ \E m, c \in 1..2 :
          /\ branches[m].parent_branch_id = NULL /\ branches[m].row = 0
          /\ branches[c].parent_branch_id = branches[m].id
          /\ branches[c].connection_col = branches[m].start_col
          /\ ContactCoil(m) /\ ContactCoil(c)

\* C1 (Parallel OR): after a scan of two powered branches NO A1, OUT C and
\* NO A2, OUT C, C is true iff A1 or A2 was true.
C1_ParallelOr ==
    (ScanDone /\ ParallelRungs) =>
        (getPinState(pinStates, AddrO0) <=>
            \E b \in 1..2 : getPinState(scanStart, branches[b].components[1].address))

\* C3 (Series AND): after a scan of a main rung NO A, NO B, OUT C, C is true
\* iff A and B were both true when the scan was entered.
C3_SeriesAnd ==
    \A b \in 1..Len(branches) :
        (ScanDone /\ SeriesRung(b)) =>
            (getPinState(pinStates, branches[b].components[3].address) <=>
                (/\ getPinState(scanStart, branches[b].components[1].address)
                 /\ getPinState(scanStart, branches[b].components[2].address)))

\* A series rung was scanned with both contacts closed and its coil is on.
C3_Witness ==
    \E b \in 1..Len(branches) :
        /\ ScanDone /\ SeriesRung(b)
        /\ branches[b].components[1].address # branches[b].components[2].address
        /\ getPinState(scanStart, branches[b].components[1].address)
        /\ getPinState(scanStart, branches[b].components[2].address)
        /\ getPinState(pinStates, branches[b].components[3].address)

\* The diagram of the end-to-end scenario.
EndToEndDiagram ==
    /\ Len(branches) = 2
    /\ \E m, c \in 1..2 :
          /\ branches[m].parent_branch_id = NULL /\ branches[m].row = 0
          /\ branches[m].components =
                <<Component("NO", AddrI0, 1), Component("OUT", AddrO0, 5)>>
          /\ branches[c].parent_branch_id = branches[m].id /\ branches[c].row = 1
          /\ branches[c].connection_col = 0
          /\ branches[c].components =
                <<Component("NO", AddrI1, 3), Component("OUT", AddrO0, 5)>>

\* C4 (End-to-end): on the scenario diagram, a scan entered with I:0/0 on and
\* I:0/1 off leaves O:0/0 on, and so does a scan entered with I:0/0 off and
\* I:0/1 on.
C4_EndToEnd ==
    (/\ ScanDone /\ EndToEndDiagram
     /\ getPinState(scanStart, AddrI0) # getPinState(scanStart, AddrI1))
        => getPinState(pinStates, AddrO0)

\* C2 (no reset within a pass): while the branches of one pass are evaluated,
\* an output pin that is true stays true.
C2_NoOutputReset ==
    [][pc = "evaluateLadder" =>
          \A a \in DOMAIN pinStates :
              (IsOutputAddress(a) /\ pinStates[a]) => pinStates'[a]]_vars

\* The OUT coil at position j of branch b received power in the pass.
CoilPowered(b, j) ==
    /\ branches[b].components[j].type = "OUT"
    /\ isComponentActive(componentStates, branches[b].row, branches[b].components[j].col)

\* C8 (clean slate): after a scan an output pin is true iff some OUT coil bound
\* to its address received power in the pass.
C8_OutputIffCoilPowered ==
    ScanDone =>
        \A a \in DOMAIN pinStates :
            IsOutputAddress(a) =>
                (pinStates[a] <=>
                    \E b \in 1..Len(branches) : \E j \in 1..Len(branches[b].components) :
                        branches[b].components[j].address = a /\ CoilPowered(b, j))

\* The only components of the diagram are an NO contact on O:0/0 followed by
\* an OUT coil on O:0/0, on the main rung.
FeedbackRung ==
    IF engine = PLCSimulation
    THEN /\ grid[0][0] = Cell("NO", AddrO0)
         /\ grid[0][1] = Cell("OUT", AddrO0)
         /\ \A r \in GridRowSet, c \in GridColSet :
               (r # 0 \/ c > 1) => grid[r][c] = NullCell
    ELSE \E m \in 1..Len(branches) :
            /\ branches[m].parent_branch_id = NULL /\ branches[m].row = 0
            /\ Len(branches[m].components) = 2
            /\ branches[m].components[1].type = "NO"
            /\ branches[m].components[1].address = AddrO0
            /\ branches[m].components[2].type = "OUT"
            /\ branches[m].components[2].address = AddrO0
            /\ \A k \in 1..Len(branches) : k # m => branches[k].components = << >>

\* The scan took at most 2 propagation passes (a branch engine's scan is one).
AtMostTwoPasses == engine = PLCSimulation => iterations <= 2

\* C5 as stated (feedback convergence): the scan of the feedback rung
\* stabilizes with O:0/0 true within at most 2 iterations.
C5_FeedbackTrue ==
    (ScanDone /\ FeedbackRung) => (getPinState(pinStates, AddrO0) /\ AtMostTwoPasses)

\* C5 amended: the scan of the feedback rung stabilizes with O:0/0 false
\* within at most 2 iterations.
C5_FeedbackFalse ==
    (ScanDone /\ FeedbackRung) => (~getPinState(pinStates, AddrO0) /\ AtMostTwoPasses)

\* The feedback rung was scanned with O:0/0 set beforehand; the stabilizer
\* took its second pass and O:0/0 is off.
C5_Witness ==
    /\ ScanDone /\ FeedbackRung /\ engine = PLCSimulation
    /\ getPinState(scanStart, AddrO0)
    /\ iterations = 2
    /\ ~getPinState(pinStates, AddrO0)

\* C6 (idempotence): a scan run right after a scan, with no input change and
\* no edit in between, answers getPinState, isWireEnergized and
\* isComponentActive as the first one did.
C6_Idempotent == (ScanDone /\ lastScan.valid) => Observe = lastScan

\* C7 (the stabilizer terminates): executeScanCycle makes between 1 and
\* MAX_ITERATIONS passes; after each pass the loop goes on iff some output
\* differs from its value at the start of that pass (and the cap is not
\* reached); it ends with the state of the last pass.
C7_StabilizerTerminates ==
    (engine = PLCSimulation /\ pc \in {"executeScanCycle", "done"}) =>
        /\ iterations <= MAX_ITERATIONS
        /\ iterations >= 1 =>
              (stateChanged <=> outputStates(pinStates) # previousOutputStates)
        /\ ScanDone =>
              /\ iterations >= 1
              /\ iterations < MAX_ITERATIONS =>
                    outputStates(pinStates) = previousOutputStates
              /\ pinStates = executeScanCycle_pass(pinStates, grid).pins

\* Some cell NC on O:0/0 is directly followed by a coil on O:0/0 on the main row.
OscillatingRung ==
    \E c \in GridColSet :
        /\ c + 1 \in GridColSet
        /\ grid[0][c] = Cell("NC", AddrO0)
        /\ grid[0][c + 1] = Cell("OUT", AddrO0)

\* The scan of an oscillating rung ended after a second pass that left the
\* outputs as the first pass had.
C7_Witness ==
    /\ engine = PLCSimulation /\ ScanDone /\ OscillatingRung
    /\ iterations = 2
    /\ getPinState(pinStates, AddrO0)
    /\ outputStates(pinStates) = previousOutputStates

\* C9 (frame): a completed scan leaves every pin whose address has no 'O:'
\* prefix as it was when the scan was entered, with the same keys.
C9_NonOutputPinsUnchanged ==
    ScanDone =>
        \A a \in DOMAIN pinStates \cup DOMAIN scanStart :
            ~IsOutputAddress(a) =>
                /\ a \in DOMAIN pinStates /\ a \in DOMAIN scanStart
                /\ pinStates[a] = scanStart[a]

\* C10 (topological order): in the order a pass evaluates the branches, every
\* branch that has a parent comes after it.
C10_ParentFirst ==
    (engine \in {LadderSimulation, LadderSimulator} /\ pc \in {"evaluateLadder", "done"}) =>
        \A k \in 1..Len(order) :
            branches[order[k]].parent_branch_id # NULL =>
                \E j \in 1..(k - 1) :
                    branches[order[j]].id = branches[order[k]].parent_branch_id

\* No component of the diagram is a coil: the pins keep their value through a scan.
NoCoils ==
    \A b \in 1..Len(branches) : \A j \in 1..Len(branches[b].components) :
        branches[b].components[j].type \in {"NO", "NC"}

\* The contact conducts for the pin values the scan was entered with.
Conducts(component) ==
    IF component.type = "NO" THEN getPinState(scanStart, component.address)
    ELSE IF component.type = "NC" THEN ~getPinState(scanStart, component.address)
    ELSE TRUE

\* The power present on branch b at column col: the branch's incoming power
\* and the conduction of each of its contacts left of col (depth bounds the
\* walk up the parents).
RECURSIVE PowerPresent(_, _, _)
PowerPresent(b, col, depth) ==
    LET parent == findBranchById(branches, branches[b].parent_branch_id)
        incoming == IF branches[b].parent_branch_id = NULL THEN TRUE
                    ELSE IF parent = 0 \/ depth = 0 THEN FALSE
                    ELSE PowerPresent(parent, branches[b].connection_col, depth - 1)
    IN /\ incoming
       /\ \A j \in 1..Len(branches[b].components) :
             branches[b].components[j].col < col => Conducts(branches[b].components[j])

\* Branch b has a parent and taps it within the parent's span.
TapsParent(b) ==
    LET parent == findBranchById(branches, branches[b].parent_branch_id) IN
    /\ branches[b].parent_branch_id # NULL
    /\ parent # 0
    /\ branches[b].connection_col >= branches[parent].start_col
    /\ branches[b].connection_col <= branches[parent].end_col

\* C11 (connection power): after a scan of a diagram without coils, the
\* incoming power of every child branch (the wire at its start column) is the
\* power present on its parent at connection_col.
C11_ChildPowerIsParentPower ==
    (ScanDone /\ NoCoils) =>
        \A b \in 1..Len(branches) :
            TapsParent(b) =>
                (isWireEnergized(branches[b].row, branches[b].start_col) <=>
                    PowerPresent(findBranchById(branches, branches[b].parent_branch_id),
                                 branches[b].connection_col, Len(branches)))

\* C12 (every column tagged): after a scan by LadderSimulation of a diagram
\* without coils, every column of every branch's span has a recorded power
\* boolean, and on the main rung isWireEnergized(row, c) is true at exactly
\* the columns where power is present.
C12_EveryColumnTagged ==
    (ScanDone /\ NoCoils /\ engine = LadderSimulation) =>
        \A b \in 1..Len(branches) :
            \A c \in branches[b].start_col..branches[b].end_col :
                /\ <<branches[b].id, c>> \in DOMAIN branchPowerStates
                /\ branches[b].parent_branch_id = NULL =>
                      (isWireEnergized(branches[b].row, c) <=>
                          PowerPresent(b, c, Len(branches)))

\* Where the parent_branch_id links from branch b lead within `hops` hops:
\* to a root, to an id no branch has, or neither (a cycle).
RECURSIVE ChainEnd(_, _)
ChainEnd(b, hops) ==
    LET parent == findBranchById(branches, branches[b].parent_branch_id) IN
    IF branches[b].parent_branch_id = NULL THEN "root"
    ELSE IF parent = 0 THEN "dangling"
    ELSE IF hops = 0 THEN "cyclic"
    ELSE ChainEnd(parent, hops - 1)

CyclicTopology == \E b \in 1..Len(branches) : ChainEnd(b, Len(branches)) = "cyclic"

DanglingParent ==
    \E b \in 1..Len(branches) :
        /\ branches[b].parent_branch_id # NULL
        /\ findBranchById(branches, branches[b].parent_branch_id) = 0

\* C13 (topology rejection): a scan of a diagram in which some branch's
\* parent chain is a cycle does not return normally (it fails with
\* CyclicTopologyError).
C13_CyclicRejected == ~(ScanDone /\ CyclicTopology)

\* C14 (dangling parent): a scan of a diagram in which some branch names a
\* parent that does not exist does not return normally (it fails with
\* DanglingParentError).
C14_DanglingRejected == ~(ScanDone /\ DanglingParent)

\* The main rung is one component followed by a coil on O:0/0, the component
\* not itself bound to O:0/0.
ComponentThenCoil(m) ==
    /\ m \in 1..Len(branches)
    /\ branches[m].parent_branch_id = NULL /\ branches[m].row = 0
    /\ Len(branches[m].components) = 2
    /\ branches[m].components[1].address # AddrO0
    /\ branches[m].components[2] = Component("OUT", AddrO0, TapMaxCol + 1)
    /\ \A k \in 1..Len(branches) : k # m => branches[k].components = << >>

\* Apart from O:0/0, the pin table has the keys and values the scan was entered with.
PinsKeptButO0 ==
    /\ DOMAIN pinStates \ {AddrO0} = DOMAIN scanStart \ {AddrO0}
    /\ \A a \in DOMAIN scanStart \ {AddrO0} : pinStates[a] = scanStart[a]

\* C15 (unset component): after a scan of a powered main rung whose first
\* component (NO, NC or OUT) has the empty address, power has passed it (the
\* coil behind it is on), it is not reported active, and the pin table is
\* otherwise as before.
C15_UnsetComponentPasses ==
    \A m \in 1..Len(branches) :
        (/\ ScanDone /\ ComponentThenCoil(m)
         /\ branches[m].components[1].type \in Types
         /\ branches[m].components[1].address = AddrEmpty)
            => /\ getPinState(pinStates, AddrO0)
               /\ ~isComponentActive(componentStates, 0, branches[m].components[1].col)
               /\ PinsKeptButO0

\* C16 (NC inversion): after a scan of a main rung whose first component is an
\* NC contact on a listed pin A (so it receives power), the contact has
\* conducted (the coil behind it is on) and is reported active iff A was false.
C16_NCInversion ==
    \A m \in 1..Len(branches) :
        (/\ ScanDone /\ ComponentThenCoil(m)
         /\ branches[m].components[1].type = "NC"
         /\ branches[m].components[1].address \in DOMAIN scanStart)
            => LET A == getPinState(scanStart, branches[m].components[1].address)
                   col == branches[m].components[1].col
               IN /\ getPinState(pinStates, AddrO0) <=> ~A
                  /\ isComponentActive(componentStates, 0, col) <=> ~A

\* C17 (unknown address): after a scan of a main rung whose first component
\* (NO, NC or OUT) is bound to an address absent from the pin table, the scan
\* has completed with the pin read as false: an NO contact has blocked (the
\* coil behind it is off), an NC contact has conducted, getPinState of the
\* address is false unless the coil itself wrote it, and a coil on it lets
\* power through.
C17_UnknownAddressReadsFalse ==
    \A m \in 1..Len(branches) :
        (/\ ScanDone /\ ComponentThenCoil(m)
         /\ branches[m].components[1].type \in Types
         /\ branches[m].components[1].address \notin DOMAIN scanStart)
            => LET type == branches[m].components[1].type
                   address == branches[m].components[1].address
               IN /\ type = "NO" => ~getPinState(pinStates, AddrO0)
                  /\ type = "NC" => getPinState(pinStates, AddrO0)
                  /\ type = "OUT" => getPinState(pinStates, AddrO0)
                  /\ type # "OUT" => ~getPinState(pinStates, address)

\* An NC contact on I:0/7, which the pin table does not hold, was scanned and
\* has conducted.
C17_Witness ==
    \E m \in 1..Len(branches) :
        /\ ScanDone /\ ComponentThenCoil(m)
        /\ branches[m].components[1].type = "NC"
        /\ branches[m].components[1].address = AddrI7
        /\ AddrI7 \notin DOMAIN pinStates
        /\ getPinState(pinStates, AddrO0)

\* C18 (unknown type): after a scan of a powered main rung whose first
\* component has a type other than NO, NC and OUT, power has passed it (the
\* coil behind it is on), it is not reported active, and the pin table is
\* otherwise as before.
C18_UnknownTypePasses ==
    \A m \in 1..Len(branches) :
        (/\ ScanDone /\ ComponentThenCoil(m)
         /\ branches[m].components[1].type \notin Types)
            => /\ getPinState(pinStates, AddrO0)
               /\ ~isComponentActive(componentStates, 0, branches[m].components[1].col)
               /\ PinsKeptButO0

\* The components are at strictly ascending columns.
StrictlyAscending(components) ==
    \A i \in 1..(Len(components) - 1) : components[i].col < components[i + 1].col

\* C19 (one component per column, sorted): in every diagram reached by
\* addComponent and removeComponent calls (among the other editing
\* operations), every branch's components are at strictly ascending columns,
\* and addComponent at an occupied (row, col) puts the new component in the
\* place of the old one and keeps the list's length.
C19_SortedUniqueColumns ==
    /\ \A b \in 1..Len(branches) : StrictlyAscending(branches[b].components)
    /\ \A row \in Rows, col \in Cols, type \in Types, a \in Addresses :
          LET b == findBranchAtRow(branches, row)
              after == addComponent(branches, row, col, type, a)
          IN (b # 0 /\ \E i \in 1..Len(branches[b].components) :
                           branches[b].components[i].col = col)
                => /\ Len(after[b].components) = Len(branches[b].components)
                   /\ \A i \in 1..Len(branches[b].components) :
                         after[b].components[i] =
                            IF branches[b].components[i].col = col
                            THEN Component(type, a, col)
                            ELSE branches[b].components[i]

\* Some branch holds a component at each column, in column order.
C19_Witness ==
    \E b \in 1..Len(branches) :
        /\ Len(branches[b].components) = MaxCol + 1
        /\ \A i \in 1..(MaxCol + 1) : branches[b].components[i].col = i - 1
        /\ branches[b].components[1].type # branches[b].components[2].type

\* The branches without a parent.
Roots == {b \in 1..Len(branches) : branches[b].parent_branch_id = NULL}

\* C20 (single root): in every diagram of a branch-based engine reached by
\* the editing operations, exactly one branch has parent_branch_id = null,
\* and it is the main rung on row 0.
C20_SingleRoot ==
    engine \in {LadderSimulation, LadderSimulator}
        => /\ Cardinality(Roots) = 1
           /\ \A b \in Roots : branches[b].row = 0

\* Branch b has a parent in the diagram and taps it inside the parent's span.
TapsInsideParent(b) ==
    LET p == findBranchById(branches, branches[b].parent_branch_id)
    IN /\ p # 0
       /\ branches[p].start_col <= branches[b].connection_col
       /\ branches[b].connection_col <= branches[p].end_col

\* C21 (connection inside the parent's span): in every diagram reached by
\* createBranch / addBranch calls, every branch with a parent has its
\* connection_col within the parent's [start_col, end_col].
C21_ConnectionInParentSpan ==
    \A b \in 1..Len(branches) :
        branches[b].parent_branch_id # NULL => TapsInsideParent(b)

\* C22 (unique ids): in every diagram reached by branch additions and
\* removals, no two branches have the same id.
C22_UniqueBranchIds ==
    \A a, b \in 1..Len(branches) : branches[a].id = branches[b].id => a = b

AddrX == <<"X", ":", "0">>
OtherAddresses == {AddrX, AddrEmpty}

InitRun ==
    /\ engine \in {LadderSimulation, LadderSimulator, PLCSimulation, GridSimulation}
    /\ pinStates = initializePins(EmptyMap, <<AddrI0>>, OutputPins)
    /\ CASE engine \in {LadderSimulation, LadderSimulator} ->
              /\ branches \in ComponentDiagrams(engine)
              /\ nextBranchId = Len(branches)
              /\ grid = EmptyGrid
         [] OTHER ->
              /\ branches = << >>
              /\ nextBranchId = 0
              /\ \E S \in {T \in SUBSET (GridRowSet \X GridColSet) : Cardinality(T) <= MaxCells} :
                    \E f \in [S -> GridCells] :
                       grid = [r \in GridRowSet |-> [c \in GridColSet |->
                                  IF <<r, c>> \in S THEN f[<<r, c>>] ELSE NullCell]]
    /\ InitCommon

NextRun ==
    \/ Start
    \/ Stop
    \/ Reset
    \/ \E a \in (DOMAIN pinStates) \cup OtherAddresses : toggleInput(a)
    \/ \E a \in (DOMAIN pinStates) \cup OtherAddresses : LadderSimulator_toggleInput(a)
    \/ LadderSimulation_evaluateLadder
    \/ LadderSimulator_evaluateLadder
    \/ PLCSimulation_iterate
    \/ PLCSimulation_stable

SpecRun == InitRun /\ [][NextRun]_vars

\* The pin table holds at address a after the step what it held before.
PinKept(a) ==
    /\ (a \in DOMAIN pinStates') = (a \in DOMAIN pinStates)
    /\ a \in DOMAIN pinStates => pinStates'[a] = pinStates[a]

\* C24 (other prefixes ignored): a toggleInput call with an address that
\* starts with neither 'I:' nor 'O:' adds no key to the pin table and changes
\* no value in it, in each engine.
C24_OtherPrefixIgnored ==
    [][\A a \in OtherAddresses :
          (toggleInput(a) \/ LadderSimulator_toggleInput(a)) => PinKept(a)]_vars

\* ---- a whole scan as a function of the pin table and the diagram
\* The forEach of LadderSimulation.evaluateLadder over the sorted order.
RECURSIVE LadderSimulation_evaluateBranches(_, _, _, _)
LadderSimulation_evaluateBranches(st, bs, ord, i) ==
    IF i > Len(ord) THEN st
    ELSE LadderSimulation_evaluateBranches(
             LadderSimulation_evaluateBranch(st, bs[ord[i]], bs), bs, ord, i + 1)

\* The forEach of LadderSimulator.evaluateLadder over the sorted branches.
RECURSIVE LadderSimulator_evaluateBranches(_, _, _)
LadderSimulator_evaluateBranches(st, sorted, i) ==
    IF i > Len(sorted) THEN st
    ELSE LadderSimulator_evaluateBranches(
             LadderSimulator_evaluateBranch(st, sorted[i], sorted), sorted, i + 1)

\* The while loop of executeScanCycle.
RECURSIVE executeScanCycle_loop(_, _, _, _)
executeScanCycle_loop(st, g, n, changed) ==
    IF changed /\ n < MAX_ITERATIONS
    THEN LET after == executeScanCycle_pass(st.pins, g)
         IN executeScanCycle_loop(after, g, n + 1,
                                  outputsChanged(after.pins, outputStates(st.pins)))
    ELSE st

\* What the engine in use answers after a scan entered with pin table pins.
ScanResult(pins) ==
    CASE engine = LadderSimulation ->
            LET st == LadderSimulation_evaluateBranches(
                          ScanState(clearOutputsByPrefix(pins), EmptyMap, EmptyMap),
                          branches, LadderSimulation_sortedBranches(branches), 1)
            IN [valid |-> TRUE,
                pins |-> [a \in ObservedAddresses |-> getPinState(st.pins, a)],
                wire |-> [k \in ObservedRows \X ObservedCols |->
                            LadderSimulation_isWireEnergized(branches, st.power, k[1], k[2])],
                comp |-> [k \in ObservedRows \X ObservedCols |->
                            isComponentActive(st.comp, k[1], k[2])]]
      [] engine = LadderSimulator ->
            LET st == LadderSimulator_evaluateBranches(
                          ScanState(clearListedOutputs(pins, OutputPins), EmptyMap, EmptyMap),
                          LadderSimulator_sortedBranches(branches), 1)
            IN [valid |-> TRUE,
                pins |-> [a \in ObservedAddresses |-> getPinState(st.pins, a)],
                wire |-> [k \in ObservedRows \X ObservedCols |->
                            LadderSimulator_isWireEnergized(st.power, k[1], k[2])],
                comp |-> [k \in ObservedRows \X ObservedCols |->
                            isComponentActive(st.comp, k[1], k[2])]]
      [] engine = GridSimulation ->
            LET st == GridSimulation_executeScanCycle(pins, grid)
            IN [valid |-> TRUE,
                pins |-> [a \in ObservedAddresses |-> getPinState(st.pins, a)],
                wire |-> [k \in ObservedRows \X ObservedCols |->
                            GridSimulation_isWireEnergized(st.power, k[1], k[2])],
                comp |-> [k \in ObservedRows \X ObservedCols |->
                            isComponentActive(st.comp, k[1], k[2])]]
      [] OTHER ->
            LET st == executeScanCycle_loop(ScanState(pins, wireStates, componentStates),
                                            grid, 0, TRUE)
            IN [valid |-> TRUE,
                pins |-> [a \in ObservedAddresses |-> getPinState(st.pins, a)],
                wire |-> [k \in ObservedRows \X ObservedCols |->
                            PLCSimulation_isWireEnergized(st.power, k[1], k[2])],
                comp |-> [k \in ObservedRows \X ObservedCols |->
                            isComponentActive(st.comp, k[1], k[2])]]

\* C25 (no stale state while running): whenever the simulation is running
\* and a start() or toggleInput() call has completed, the pins, wire states
\* and component states are those a scan of the current diagram on the
\* current pin values yields.
C25_NoStaleOutputs ==
    (isRunning /\ ScanDone) => Observe = ScanResult(pinStates)

\* The pin table with its 'O:' keys set as in outs.
WithOutputs(pins, outs) ==
    [a \in DOMAIN pins |-> IF a \in DOMAIN outs THEN outs[a] ELSE pins[a]]

\* C26 (outputs a function of the inputs): the pins, wire states and
\* component states after a scan are those a scan of the same diagram yields
\* from the same values of the other pins, whatever the output pins held
\* when the scan was entered.
C26_OutputsFunctionOfInputs ==
    ScanDone =>
        \A outs \in [DOMAIN outputStates(scanStart) -> BOOLEAN] :
            ScanResult(WithOutputs(scanStart, outs)) = Observe

\* No wire is energized and no component is active.
Dark ==
    \A k \in ObservedRows \X (0..(ScenarioEndCol + 1)) :
        ~isWireEnergized(k[1], k[2]) /\ ~isComponentActive(componentStates, k[1], k[2])

\* C27 (reset): after reset() the simulation is not running, every pin of the
\* pin table is false and no wire or component state is left, in each engine.
C27_ResetClearsAll ==
    [][Reset => /\ ~isRunning'
                /\ \A a \in DOMAIN pinStates' : ~pinStates'[a]
                /\ Dark']_vars

\* C28 (stop): while the simulation is not running, after stop() and through
\* the toggleInput calls that follow, no wire is energized and no component
\* is active at any position; and stop() changes no input pin value.
C28_StoppedIsDark ==
    [][/\ ~isRunning' => Dark'
       /\ Stop => \A a \in DOMAIN pinStates :
                     IsInputAddress(a) => pinStates'[a] = pinStates[a]]_vars

\* LadderSimulator (whose toggleInput acts only while running) stopped after
\* a scan that had I:0/0 on and the coil on O:0/0 powered.
C28_Witness ==
    /\ engine = LadderSimulator
    /\ ~isRunning
    /\ getPinState(pinStates, AddrI0)
    /\ getPinState(pinStates, AddrO0)
    /\ Dark

\* C29 (two passes suffice): in the iterating grid engine a pass yields the
\* same pins, wire and component states whatever the outputs held before it,
\* and the loop of executeScanCycle never makes a third pass (so the cap of
\* MAX_ITERATIONS passes is never reached).
C29_TwoPassesSuffice ==
    engine = PLCSimulation =>
        /\ iterations <= 2
        /\ iterations < MAX_ITERATIONS
        /\ \A outs \in [DOMAIN outputStates(pinStates) -> BOOLEAN] :
              executeScanCycle_pass(WithOutputs(pinStates, outs), grid)
                 = executeScanCycle_pass(pinStates, grid)

\* A scan of the grid engine that turned O:0/0 on and took its second pass
\* to see the outputs settled.
C29_Witness ==
    /\ engine = PLCSimulation
    /\ ScanDone
    /\ iterations = 2
    /\ ~stateChanged
    /\ getPinState(pinStates, AddrO0)
    /\ ~getPinState(scanStart, AddrO0)

\* ---- the iterating grid engine on grids with a vertical chain
\* Grids of a blocking or absent contact at (0, 0), vertical lines down
\* columns 0 and 1, and wire on the bottom row.
ChainCells(row, col) ==
    IF row = 0 /\ col = 0 THEN {NullCell, Cell("NO", AddrI0)}
    ELSE IF row = GridRows - 1 THEN {NullCell, Cell("HLINE", AddrEmpty)}
    ELSE IF row = 0 THEN {NullCell, Cell("VLINE", AddrEmpty), Cell("BOTH", AddrEmpty)}
    ELSE {NullCell, Cell("VLINE", AddrEmpty)}

ChainGrids ==
    {g \in [GridRowSet -> [GridColSet -> {NullCell} \cup GridCells]] :
        \A r \in GridRowSet, c \in GridColSet : g[r][c] \in ChainCells(r, c)}

InitChain ==
    /\ engine = PLCSimulation
    /\ pinStates = initializePins(EmptyMap, <<AddrI0>>, OutputPins)
    /\ branches = << >>
    /\ nextBranchId = 0
    /\ grid \in ChainGrids
    /\ InitCommon

NextChain ==
    \/ Start
    \/ Stop
    \/ \E a \in DOMAIN pinStates : toggleInput(a)
    \/ PLCSimulation_iterate
    \/ PLCSimulation_stable

SpecChain == InitChain /\ [][NextChain]_vars

\* Rows top..bottom of column col are joined by vertical cells.
Chain(col, top, bottom) ==
    /\ top < bottom
    /\ \A r \in top..(bottom - 1) : isVertical(grid[r][col])

\* C30 (vertical OR is symmetric): after a scan of the grid engine, the rows
\* a chain of VLINE / BOTH cells joins in a column have the same power in
\* that column.
C30_ChainRowsShareValue ==
    (engine = PLCSimulation /\ ScanDone) =>
        \A col \in GridColSet, top \in GridRowSet, bottom \in GridRowSet :
            Chain(col, top, bottom) =>
                (PLCSimulation_isWireEnergized(wireStates, top, col)
                    <=> PLCSimulation_isWireEnergized(wireStates, bottom, col))

\* ---- diagrams whose branches tap a rung that carries a contact, with coils
\* A branch with no component or with one coil on O:0/0.
CoilRungs == {<< >>} \cup {<<Component("OUT", AddrO0, c)>> : c \in TapCols}

\* Main rung with at most one contact on I:0/0 or O:0/0 and two branches
\* tapping it, each with at most one coil: on LadderStructure
\* createBranch(0, c1, 1, 0, 9) and createBranch(0, c2, 2, 0, 9); on
\* LadderData the initial rung and addBranch(2, 0, 9, c2).
CoilTapDiagrams(e) ==
    {<<ScenarioMain(m), Branch(1, 1, 0, ScenarioEndCol, 0, c1, k1),
       Branch(2, 2, 0, ScenarioEndCol, 0, c2, k2)>> :
        m \in ContactRungs({"NO", "NC"}, AddrI0) \cup ContactRungs({"NO", "NC"}, AddrO0),
        c1 \in IF e = LadderSimulation THEN {0, 1} ELSE {0},
        k1 \in CoilRungs, c2 \in TapCols, k2 \in CoilRungs}

InitTap ==
    /\ engine \in {LadderSimulation, LadderSimulator}
    /\ pinStates = initializePins(EmptyMap, <<AddrI0>>, OutputPins)
    /\ branches \in CoilTapDiagrams(engine)
    /\ nextBranchId = Len(branches)
    /\ grid = EmptyGrid
    /\ InitCommon

NextTap ==
    \/ Start
    \/ Stop
    \/ \E a \in DOMAIN pinStates : toggleInput(a)
    \/ \E a \in DOMAIN pinStates : LadderSimulator_toggleInput(a)
    \/ LadderSimulation_evaluateLadder
    \/ LadderSimulator_evaluateLadder

SpecTap == InitTap /\ [][NextTap]_vars

\* ---- power along a branch
\* The columns of branch b for which the scan holds a power value:
\* LadderSimulation records a boolean per key 'branch-id-col-c';
\* LadderSimulator records true per key 'row-c' and leaves the other columns
\* of the span unset, which reads as false.
RecordedCols(b) ==
    IF engine = LadderSimulation
    THEN {c \in 0..(gridCols + 1) : <<branches[b].id, c>> \in DOMAIN branchPowerStates}
    ELSE branches[b].start_col..branches[b].end_col

RecordedPower(b, c) ==
    IF engine = LadderSimulation
    THEN GetOrFalse(branchPowerStates, <<branches[b].id, c>>)
    ELSE GetOrFalse(wireStates, <<branches[b].row, c>>)

\* The power branch b was entered with: the value recorded at its start column.
IncomingPower(b) == RecordedPower(b, branches[b].start_col)

\* The pin table LadderSimulator.evaluateLadder held when it reached the k-th
\* branch of this scan (i is the branch the walk is at).
RECURSIVE PinsBeforeBranch(_, _, _)
PinsBeforeBranch(st, k, i) ==
    IF i >= k THEN st.pins
    ELSE PinsBeforeBranch(LadderSimulator_evaluateBranch(st, branches[i], branches), k, i + 1)

\* The power evaluateBranch carried when it reached column col of the branch,
\* entered with pin table pins and power `power` (i is the next component).
RECURSIVE ReachedFrom(_, _, _, _, _)
ReachedFrom(pins, branch, col, i, power) ==
    IF i > Len(branch.components) THEN power
    ELSE IF branch.components[i].col >= col THEN power
    ELSE LET r == LadderSimulator_evaluateComponent(pins, branch.components[i], power)
         IN ReachedFrom(r.pins, branch, col, i + 1, r.power)

\* The power branch p had at column col when this scan evaluated it:
\* LadderSimulation recorded it under 'branch-id-col-c'; for LadderSimulator
\* it is the power its evaluateBranch carried to the column.
PowerAt(p, col) ==
    IF engine = LadderSimulation THEN RecordedPower(p, col)
    ELSE ReachedFrom(
             PinsBeforeBranch(
                 ScanState(clearListedOutputs(scanStart, OutputPins), EmptyMap, EmptyMap),
                 p, 1),
             branches[p], col, 1, IncomingPower(p))

\* C31 (power has a source): after a scan by a branch engine, for every
\* branch, power recorded true at a column c means that the branch's incoming
\* power is true and that power is true at every recorded column left of c; a
\* child branch has incoming power only if its parent had power at the
\* connection column; and a coil is active only on a branch with incoming
\* power.
C31_PowerHasSource ==
    (ScanDone /\ engine \in {LadderSimulation, LadderSimulator}) =>
        \A b \in 1..Len(branches) :
            LET parent == findBranchById(branches, branches[b].parent_branch_id) IN
            /\ \A c \in RecordedCols(b) :
                  RecordedPower(b, c) =>
                      /\ IncomingPower(b)
                      /\ \A left \in RecordedCols(b) : left < c => RecordedPower(b, left)
            /\ (branches[b].parent_branch_id # NULL /\ IncomingPower(b)) =>
                  /\ parent # 0
                  /\ PowerAt(parent, branches[b].connection_col)
            /\ \A j \in 1..Len(branches[b].components) :
                  (/\ branches[b].components[j].type = "OUT"
                   /\ isComponentActive(componentStates, branches[b].row,
                                        branches[b].components[j].col))
                      => IncomingPower(b)

\* C32 (one branch per row): after any sequence of branch additions and
\* removals no two branches of the diagram are on the same row, so
\* findBranchAtRow / getBranch and the keys 'row-col' name one branch.
C32_OneBranchPerRow ==
    \A a, b \in 1..Len(branches) : branches[a].row = branches[b].row => a = b

\* A branch that is not a main branch and has neither a component nor a child.
EmptyLeaf(bs, b) ==
    /\ bs[b].parent_branch_id # NULL
    /\ Len(bs[b].components) = 0
    /\ Len(getChildBranches(bs, bs[b].id)) = 0

\* C33 (cleanup is complete and safe): one call of cleanupEmptyBranches
\* leaves no branch that is not a main branch and has neither components nor
\* child branches, so a second call changes nothing; it keeps every main
\* branch; and every remaining branch whose parent resolved before the call
\* has a parent that remains.
C33_CleanupComplete ==
    [][CleanupEmptyBranches =>
          /\ \A b \in 1..Len(branches') : ~EmptyLeaf(branches', b)
          /\ cleanupEmptyBranches(branches') = branches'
          /\ \A b \in 1..Len(branches) :
                branches[b].parent_branch_id = NULL =>
                    \E k \in 1..Len(branches') : branches'[k] = branches[b]
          /\ \A k \in 1..Len(branches') :
                (/\ branches'[k].parent_branch_id # NULL
                 /\ findBranchById(branches, branches'[k].parent_branch_id) # 0)
                    => findBranchById(branches', branches'[k].parent_branch_id) # 0]_vars

\* ------------------------------------------------------------ the page
\* (app.js)  The handlers of the page around one LadderData and one
\* LadderSimulator. A handler runs to completion: none starts while a scan is
\* in progress. The pin select takes the focus when it opens and its onblur
\* removes it, so no other element is clicked while it is open.
Tools == {"NO", "NC", "OUT", "HLINE", "VLINE", "CLEAR"}
NoDialog == << >>

\* start, stop and reset of LadderSimulator, as the button handlers call them.
LadderSimulator_start ==
    /\ isRunning' = TRUE
    /\ executeScan(pinStates)

LadderSimulator_stop ==
    /\ isRunning' = FALSE
    /\ branchPowerStates' = EmptyMap
    /\ wireStates' = EmptyMap
    /\ componentStates' = EmptyMap
    /\ NoScanRun
    /\ UNCHANGED <<branches, pinStates>>

LadderSimulator_reset ==
    /\ isRunning' = FALSE
    /\ pinStates' = initializePins(pinStates, LadderData_pins.inputs, LadderData_pins.outputs)
    /\ branchPowerStates' = EmptyMap
    /\ wireStates' = EmptyMap
    /\ componentStates' = EmptyMap
    /\ NoScanRun
    /\ UNCHANGED branches

\* A button of the toolbox: a second click on the selected tool deselects it.
tool_onclick(tool) ==
    /\ Quiet
    /\ dialog = NoDialog
    /\ currentTool' = IF currentTool = tool THEN "null" ELSE tool
    /\ UNCHANGED <<engine, branches, nextBranchId, grid, pinStates, isRunning,
                   branchPowerStates, wireStates, componentStates, pc, order, bi,
                   iterations, stateChanged, previousOutputStates, scanStart, lastScan,
                   isSimulationRunning, dialog>>

keydown_Escape ==
    /\ Quiet
    /\ currentTool' = "null"
    /\ UNCHANGED <<engine, branches, nextBranchId, grid, pinStates, isRunning,
                   branchPowerStates, wireStates, componentStates, pc, order, bi,
                   iterations, stateChanged, previousOutputStates, scanStart, lastScan,
                   isSimulationRunning, dialog>>

\* Math.max(...branches.map(b => b.row))
RECURSIVE maxRow(_, _, _)
maxRow(bs, i, max) ==
    IF i > Len(bs) THEN max
    ELSE maxRow(bs, i + 1, IF bs[i].row > max THEN bs[i].row ELSE max)

\* handleToolPlacement: the diagram the selected tool leaves.
handleToolPlacement(row, col) ==
    CASE currentTool \in {"NO", "NC", "OUT"} ->
            addComponent(branches, row, col, currentTool, AddrEmpty)
      [] currentTool = "VLINE" ->
            addBranch(branches, maxRow(branches, 2, branches[1].row) + 1, 0,
                      gridCols - 1, col)
      [] currentTool = "CLEAR" ->
            IF row > 0
            THEN IF findBranchAtRow(branches, row) # 0
                 THEN removeBranch(branches, row) ELSE branches
            ELSE LadderData_removeComponent(branches, row, col)
      [] OTHER -> branches

\* The click handler of the canvas without its first line.
canvas_click_Unguarded(row, col) ==
    /\ Quiet
    /\ dialog = NoDialog
    /\ engine = LadderSimulator
    /\ currentTool # "null"
    /\ maxRow(branches, 2, branches[1].row) + 1 \in Rows \/ currentTool # "VLINE"
    /\ Edited(handleToolPlacement(row, col))
    /\ UNCHANGED nextBranchId

\* The click handler of the canvas: nothing while running or without a tool.
canvas_click(row, col) ==
    /\ Quiet
    /\ dialog = NoDialog
    /\ engine = LadderSimulator
    /\ ~(isSimulationRunning \/ currentTool = "null")
    /\ maxRow(branches, 2, branches[1].row) + 1 \in Rows \/ currentTool # "VLINE"
    /\ Edited(handleToolPlacement(row, col))
    /\ UNCHANGED nextBranchId

\* The double-click handler of the canvas: the pin select opens on a component.
canvas_dblclick(row, col) ==
    /\ Quiet
    /\ dialog = NoDialog
    /\ engine = LadderSimulator
    /\ ~isSimulationRunning
    /\ LET b == findBranchAtRow(branches, row) IN
       /\ b # 0
       /\ \E j \in 1..Len(branches[b].components) : branches[b].components[j].col = col
    /\ dialog' = <<row, col>>
    /\ UNCHANGED <<engine, branches, nextBranchId, grid, pinStates, isRunning,
                   branchPowerStates, wireStates, componentStates, pc, order, bi,
                   iterations, stateChanged, previousOutputStates, scanStart, lastScan,
                   isSimulationRunning, currentTool>>

\* The pins the select of the open dialog offers: the outputs for a coil,
\* the inputs and the outputs for a contact.
offeredPins(component) ==
    IF component.type = "OUT" THEN Range(LadderData_pins.outputs)
    ELSE Range(LadderData_pins.inputs) \cup Range(LadderData_pins.outputs)

\* select.onchange: the chosen pin is bound to the component the dialog was
\* opened on (AddrEmpty is the '-- Select Pin --' option), the select goes.
select_onchange(address) ==
    /\ Quiet
    /\ dialog # NoDialog
    /\ LET b == findBranchAtRow(branches, dialog[1])
           j == FirstIndex([i \in DOMAIN branches[b].components |->
                               branches[b].components[i].col = dialog[2]])
       IN /\ address \in offeredPins(branches[b].components[j]) \cup {AddrEmpty}
          /\ branches' = IF address = AddrEmpty THEN branches
                         ELSE [branches EXCEPT ![b].components[j].address = address]
    /\ dialog' = NoDialog
    /\ NoScanRun
    /\ UNCHANGED <<engine, nextBranchId, grid, pinStates, isRunning, branchPowerStates,
                   wireStates, componentStates, isSimulationRunning, currentTool>>

\* select.onblur: the select goes when the focus leaves it.
select_onblur ==
    /\ Quiet
    /\ dialog # NoDialog
    /\ dialog' = NoDialog
    /\ UNCHANGED <<engine, branches, nextBranchId, grid, pinStates, isRunning,
                   branchPowerStates, wireStates, componentStates, pc, order, bi,
                   iterations, stateChanged, previousOutputStates, scanStart, lastScan,
                   isSimulationRunning, currentTool>>

\* The onclick of an input pin: toggleInput is called only while the page
\* takes the simulation for running.
pin_onclick(address) ==
    /\ dialog = NoDialog
    /\ isSimulationRunning
    /\ LadderSimulator_toggleInput(address)

startStopBtn_onclick ==
    /\ Quiet
    /\ dialog = NoDialog
    /\ engine = LadderSimulator
    /\ isSimulationRunning' = ~isSimulationRunning
    /\ IF ~isSimulationRunning THEN LadderSimulator_start ELSE LadderSimulator_stop
    /\ UNCHANGED <<engine, nextBranchId, grid, currentTool, dialog>>

\* The reset handler without its last if: the flag is left as it is.
resetBtn_onclick_KeepsFlag ==
    /\ Quiet
    /\ dialog = NoDialog
    /\ engine = LadderSimulator
    /\ LadderSimulator_reset
    /\ UNCHANGED <<engine, nextBranchId, grid, isSimulationRunning, currentTool, dialog>>

resetBtn_onclick ==
    /\ Quiet
    /\ dialog = NoDialog
    /\ engine = LadderSimulator
    /\ LadderSimulator_reset
    /\ isSimulationRunning' = FALSE
    /\ UNCHANGED <<engine, nextBranchId, grid, currentTool, dialog>>

\* The page after window.onload: the pins loaded, the initial rung.
InitApp ==
    /\ engine = LadderSimulator
    /\ pinStates = initializePins(EmptyMap, LadderData_pins.inputs, LadderData_pins.outputs)
    /\ branches = createEmptyRung
    /\ nextBranchId = 0
    /\ grid = EmptyGrid
    /\ InitCommon

NextApp ==
    \/ \E tool \in Tools : tool_onclick(tool)
    \/ keydown_Escape
    \/ \E row \in Rows, col \in Cols : canvas_click(row, col)
    \/ \E row \in Rows, col \in Cols : canvas_dblclick(row, col)
    \/ \E a \in Range(LadderData_pins.inputs) \cup Range(LadderData_pins.outputs)
                  \cup {AddrEmpty} : select_onchange(a)
    \/ select_onblur
    \/ \E a \in Range(LadderData_pins.inputs) : pin_onclick(a)
    \/ \E a \in Range(LadderData_pins.inputs) : LadderSimulator_toggleInput(a)
    \/ startStopBtn_onclick
    \/ resetBtn_onclick
    \/ LadderSimulator_evaluateLadder

SpecApp == InitApp /\ [][NextApp]_vars

\* C34 (the page's flag follows the simulator): between handlers
\* isSimulationRunning equals simulator.isRunning, whatever the order of the
\* Start/Stop and Reset clicks; a Reset click leaves both false; and a
\* Start/Stop click on a stopped simulator starts it.
C34_FlagFollowsSimulator ==
    /\ [](isSimulationRunning <=> isRunning)
    /\ [][/\ resetBtn_onclick => (~isSimulationRunning' /\ ~isRunning')
          /\ (startStopBtn_onclick /\ ~isRunning) =>
                (isSimulationRunning' /\ isRunning')]_vars

\* A Reset click is about to hit a running simulation with an input on.
C34_Witness ==
    /\ isSimulationRunning
    /\ isRunning
    /\ getPinState(pinStates, AddrI0)
    /\ ENABLED resetBtn_onclick

\* A click or double-click on the canvas, or the choice it leads to in the
\* pin select.
CanvasEvent ==
    \/ \E row \in Rows, col \in Cols : canvas_click(row, col) \/ canvas_dblclick(row, col)
    \/ \E a \in Range(LadderData_pins.inputs) \cup Range(LadderData_pins.outputs)
                  \cup {AddrEmpty} : select_onchange(a)

\* A click on an input pin, or a call of toggleInput.
PinEvent ==
    \E a \in Range(LadderData_pins.inputs) :
        pin_onclick(a) \/ LadderSimulator_toggleInput(a)

\* C35 (edits and toggles exclude each other): on the page, while the
\* simulation is running no canvas click or double-click changes the diagram
\* (no component, branch or pin assignment is added, replaced or removed),
\* and while it is stopped no input-pin click and no toggleInput call changes
\* a pin value or runs a scan.
C35_EditsAndTogglesExclusive ==
    [][/\ (isRunning /\ CanvasEvent) => branches' = branches
       /\ (~isRunning /\ PinEvent) =>
             /\ pinStates' = pinStates
             /\ pc' = pc
             /\ wireStates' = wireStates
             /\ componentStates' = componentStates]_vars

\* The simulation runs on a diagram that was edited and bound to a pin while
\* stopped, an input was toggled on while running, and a tool is selected.
C35_Witness ==
    /\ isRunning
    /\ isSimulationRunning
    /\ currentTool = "CLEAR"
    /\ getPinState(pinStates, AddrI0)
    /\ Len(branches) = 3
    /\ \E b \in 1..Len(branches) : \E j \in 1..Len(branches[b].components) :
          branches[b].components[j].address = AddrI0

\* The pin table LadderSimulation.evaluateLadder held when it reached
\* position k of the sorted order (i is the position the walk is at).
RECURSIVE LadderSimulation_pinsBefore(_, _, _)
LadderSimulation_pinsBefore(st, k, i) ==
    IF i >= k THEN st.pins
    ELSE LadderSimulation_pinsBefore(
             LadderSimulation_evaluateBranch(st, branches[order[i]], branches), k, i + 1)

\* hasPower of LadderSimulation.evaluateBranch when its loop reached column
\* col of the branch (i is the next component).
RECURSIVE LadderSimulation_reachedFrom(_, _, _, _, _)
LadderSimulation_reachedFrom(pins, branch, col, i, hasPower) ==
    IF i > Len(branch.components) THEN hasPower
    ELSE IF branch.components[i].col >= col THEN hasPower
    ELSE LET r == LadderSimulation_evaluateComponent(pins, branch.components[i], hasPower)
         IN LadderSimulation_reachedFrom(r.pins, branch, col, i + 1, r.powerAfter)

\* The power branch b carried to column col when this scan evaluated it.
LadderSimulation_PowerAt(b, col) ==
    LET k == CHOOSE n \in 1..Len(order) : order[n] = b IN
    LadderSimulation_reachedFrom(
        LadderSimulation_pinsBefore(
            ScanState(clearOutputsByPrefix(scanStart), EmptyMap, EmptyMap), k, 1),
        branches[b], col, 1, IncomingPower(b))

\* ---- the coil in series
\* The power that reaches the coil at column col of branch b (branch
\* engines) or the cell <<row, col>> (grid engine, b is the row).
PowerBeforeCoil(b, col) ==
    CASE engine = LadderSimulation -> LadderSimulation_PowerAt(b, col)
      [] engine = LadderSimulator -> PowerAt(b, col)
      [] OTHER ->
            IF col = 0 THEN (IF b > 0 THEN isConnectedToLeftRail(grid, b, col) ELSE TRUE)
            ELSE GetOrFalse(wireStates, <<b, col - 1>>)
                     \/ checkVerticalPower(grid, wireStates, b, col)

\* The power on the wire that leaves the coil.
PowerAfterCoil(b, col) ==
    CASE engine = LadderSimulation -> LadderSimulation_PowerAt(b, col + 1)
      [] engine = LadderSimulator -> GetOrFalse(wireStates, <<branches[b].row, col>>)
      [] OTHER -> GetOrFalse(wireStates, <<b, col>>)

\* The coils of the diagram as <<branch (or grid row), column, row>>.
Coils ==
    IF engine \in {LadderSimulation, LadderSimulator}
    THEN {<<b, branches[b].components[j].col, branches[b].row>> :
            <<b, j>> \in {p \in (1..Len(branches)) \X (1..MaxSize) :
                            /\ p[2] <= Len(branches[p[1]].components)
                            /\ branches[p[1]].components[p[2]].type = "OUT"}}
    ELSE {<<r, c, r>> : <<r, c>> \in {p \in GridRowSet \X GridColSet :
                                         grid[p[1]][p[2]].type = "OUT"}}

\* In the grid a vertical connection of the row above pours its power into
\* the wire that leaves the cell.
FedFromAbove(k) ==
    /\ engine = PLCSimulation
    /\ k[1] > 0
    /\ isVertical(grid[k[1] - 1][k[2]])

\* C36 (a coil does not block): after a scan, the power after every OUT coil
\* equals the power before it, so the component to its right receives the
\* power the coil received and of two coils side by side the second is active
\* iff the first is; and the coil is reported active iff it received power.
C36_CoilPassesPower ==
    (ScanDone /\ engine \in {LadderSimulation, LadderSimulator, PLCSimulation}) =>
        \A k \in Coils :
            /\ PowerBeforeCoil(k[1], k[2]) => PowerAfterCoil(k[1], k[2])
            /\ ~FedFromAbove(k) =>
                  (PowerAfterCoil(k[1], k[2]) = PowerBeforeCoil(k[1], k[2]))
            /\ isComponentActive(componentStates, k[3], k[2])
                  <=> PowerBeforeCoil(k[1], k[2])
            /\ \A n \in Coils :
                  (n[1] = k[1] /\ n[2] = k[2] + 1 /\ ~FedFromAbove(k)) =>
                      (isComponentActive(componentStates, n[3], n[2])
                           <=> isComponentActive(componentStates, k[3], k[2]))

\* A powered coil with an active coil right of it, after a scan.
C36_Witness ==
    /\ ScanDone
    /\ engine \in {LadderSimulation, LadderSimulator, PLCSimulation}
    /\ \E k, n \in Coils :
          /\ n[1] = k[1]
          /\ n[2] = k[2] + 1
          /\ PowerBeforeCoil(k[1], k[2])
          /\ isComponentActive(componentStates, k[3], k[2])
          /\ isComponentActive(componentStates, n[3], n[2])

====
